---- MODULE Spec2Model ----
(***************************************************************************)
(* A model of the API key pool of src/infrastructure/api_key_pool.py:      *)
(* KeyUsageTracker, ConcurrencyTracker, FailureTracker and APIKeyPool      *)
(* (get_key and its three rotation strategies, use_key, execute_with_retry *)
(* and the direct tracker calls), called by several threads.               *)
(*                                                                         *)
(* Keys are named by their position 1..nkeys in APIKeyPool._keys.  A step  *)
(* of the model is one call of a tracker or pool method that a thread      *)
(* makes between two places where another thread can be scheduled:         *)
(* get_key is one step, and use_key and execute_with_retry are sequences   *)
(* of steps (select, acquire, scan, the operation, the handlers).          *)
(***************************************************************************)
EXTENDS Integers, Sequences, FiniteSets, TLC

(***************************************************************************)
(* Bounds of the model.                                                    *)
(***************************************************************************)
\* the pool is built with 1..MaxKeys keys
MaxKeys == 2
\* threads calling the pool
NumProcs == 2
\* execute_with_retry is called with max_retries in 0..MaxRetries
MaxRetries == 3
\* the pool is built with daily_limit in 1..MaxDailyLimit
MaxDailyLimit == 2
\* the pool is built with max_concurrent_per_key in 1..MaxConcurrent
MaxConcurrent == 2
\* the pool is built with max_failures_per_key in 1..MaxFailures
MaxFailures == 2
\* the clock shows the days 0..MaxDay
MaxDay == 1
\* direct calls (mark_*, acquire, release, reset_failures) made in one behaviour
MaxCalls == 2
\* execute_with_retry calls started in one behaviour
MaxRuns == 2
\* get_key, use_key and execute_with_retry calls started in one behaviour
MaxUses == 3

\* keys in a pool whose callers only call get_key
MaxPoolKeys == 3
\* direct get_key calls in one behaviour
MaxGetKeys == 5
\* calls of the methods of one tracker in one behaviour
MaxTrackerCalls == 5

\* APIKeyInfo.parse is called with key strings of at most MaxStringLen characters
MaxStringLen == 8
\* and with default_index in 0..MaxIndex
MaxIndex == 1

\* get_status and get_total_remaining calls started in one behaviour
MaxReports == 2

Procs == 1..NumProcs

Strategies == {"round_robin", "least_used", "random"}

VARIABLES
    \* APIKeyPool.__init__ arguments (fixed after construction)
    nkeys,            \* len(self._keys)
    strategy,         \* self._strategy
    daily_limit,      \* KeyUsageTracker.daily_limit
    max_concurrent,   \* ConcurrencyTracker.max_per_key
    max_failures,     \* FailureTracker.max_failures
    \* tracker and pool state
    usage,            \* KeyUsageTracker._usage (a missing entry reads 0)
    last_reset,       \* KeyUsageTracker._last_reset.date()
    active,           \* ConcurrencyTracker._active
    failures,         \* FailureTracker._failures
    rr_index,         \* APIKeyPool._round_robin_index
    \* the environment
    today,            \* datetime.now().date()
    \* per thread: where it is and the locals of the call it is in
    pc,
    key,              \* local `key` of use_key / execute_with_retry; 0 = unbound
    attempts,         \* local `attempts` of use_key
    acquired,         \* what the last self.acquire(key) of use_key returned
    attempt,          \* loop variable `attempt` of execute_with_retry
    tried,            \* local `tried_keys`
    max_retries,      \* argument max_retries
    on_success,       \* argument on_success: "none", "mark_used", or "raises"
                      \* (a callback that raises an exception)
    last_error,       \* local `last_error`: "none", "OpError", "NoKeys",
                      \* "CallbackError"
    call_count,       \* invocations of the operation made by the current call
    result,           \* the key returned / yielded, or the key whose result is returned
    error,            \* the exception the call ended with, "none" if it returned
    msg,              \* the counts in get_key's error message
    ncalls,           \* direct calls made so far (bounds the behaviour)
    nruns,            \* get_key / use_key / execute_with_retry calls started so far
    \* history
    returned,         \* the direct get_key calls that returned, in order: the key
                      \* returned and the set `available` it was chosen from
    \* the tracker methods, one locked section at a time
    lock,             \* the thread holding each tracker's _lock, 0 = free
    method,           \* per thread: the tracker method it is in and its key
    called_on,        \* per thread: the date of local `now` of _check_daily_reset
    current,          \* per thread: the count the method read under the lock
    ret,              \* per thread: what the method returned
    \* history of the tracker calls
    incs,             \* per key: increment calls completed
    count_days,       \* per key: the dates of the increments its usage count holds
    fails_since,      \* per key: mark_failed calls completed since the last
                      \* mark_success of the key or reset_all
    \* the key records
    alias,            \* per key: APIKeyInfo.alias of self._key_infos
    parsed,           \* the last call of APIKeyInfo.parse: arguments and result
    \* get_status and get_total_remaining, one key of the iteration at a time
    pos,              \* per thread: keys of the iteration already visited
    status,           \* per thread: the dict get_status has built so far
    summands,         \* per thread: what each visited key has added to the sum
                      \* of get_total_remaining
    \* the locks a pool operation takes, one `with` entry or exit at a time
    frame             \* per thread: the pool operation it is in, the calls the
                      \* operation has still to make, and the lock entries and
                      \* exits left of the call it is in

cfgvars == <<nkeys, strategy, daily_limit, max_concurrent, max_failures>>
poolvars == <<usage, last_reset, active, failures, rr_index>>
locals == <<key, attempts, acquired, attempt, tried, max_retries, on_success,
            last_error, call_count, result, error, msg>>
counters == <<ncalls, nruns>>
trackvars == <<lock, method, called_on, current, ret, incs, count_days, fails_since>>
infovars == <<alias, parsed>>
reportvars == <<pos, status, summands>>
restvars == <<infovars, reportvars, frame>>
vars == <<cfgvars, poolvars, today, pc, locals, counters, returned, trackvars, restvars>>

Keys == 1..nkeys

\* self._keys, in construction order
KeySeq == [i \in 1..nkeys |-> i]

Range(s) == {s[i] : i \in DOMAIN s}

NoMsg == [exhausted |-> 0, failed |-> 0, total |-> 0, limit |-> 0]

\* the three trackers of a pool, each with a _lock of its own
Trackers == {"usage", "concurrency", "failures"}

\* the three tracker locks and APIKeyPool._lock, which guards the cursor
Locks == Trackers \cup {"pool"}

\* a thread that is in no pool operation
NoFrame == [op |-> "none", raises |-> FALSE, plan |-> <<>>, reps |-> 0, todo |-> <<>>]

\* a thread that is in no tracker method, and one that has returned nothing
NoMethod == [name |-> "none", key |-> 0]
NoRet == "none"

(***************************************************************************)
(* KeyUsageTracker                                                         *)
(***************************************************************************)
\* a reset that also clears on the date of the last reset
CheckDailyReset_SameDay(u, lr, now) == IF now >= lr THEN [k \in DOMAIN u |-> 0] ELSE u

\* _check_daily_reset: the usage map an accessor called on day `now` works on
CheckDailyReset(u, lr, now) == IF now > lr THEN [k \in DOMAIN u |-> 0] ELSE u

\* _check_daily_reset: _last_reset after an accessor called on day `now`
CheckDailyResetDate(lr, now) == IF now > lr THEN now ELSE lr

\* what any accessor called now reads and leaves behind
UsageNow == CheckDailyReset(usage, last_reset, today)
LastResetNow == CheckDailyResetDate(last_reset, today)

\* a tracker that still hands out a key whose usage has reached the limit
IsAvailable_AtLimit(u, k) == u[k] <= daily_limit

IsAvailable(u, k) == u[k] < daily_limit

GetAvailableKeys(u, ks) == SelectSeq(ks, LAMBDA k : IsAvailable(u, k))

\* a remainder that is not cut off at 0
Max_Second(a, b) == b

Max(a, b) == IF a >= b THEN a ELSE b

GetRemaining(u, k) == Max(0, daily_limit - u[k])

(***************************************************************************)
(* ConcurrencyTracker                                                      *)
(***************************************************************************)
CanAcquire(a, k) == a[k] < max_concurrent

\* acquire: the map after the call (unchanged when it returns False)
AcquireMap(a, k) == IF a[k] >= max_concurrent THEN a ELSE [a EXCEPT ![k] = @ + 1]

\* release: the map after the call
ReleaseMap(a, k) == IF a[k] > 0 THEN [a EXCEPT ![k] = @ - 1] ELSE a

(***************************************************************************)
(* FailureTracker                                                          *)
(***************************************************************************)
\* a key that still counts as healthy at the threshold
IsHealthy_AtThreshold(f, k) == f[k] <= max_failures

IsHealthy(f, k) == f[k] < max_failures

MarkFailedMap(f, k) == [f EXCEPT ![k] = @ + 1]

\* a success that takes one failure off
MarkSuccessMap_Decrement(f, k) == [f EXCEPT ![k] = Max(0, @ - 1)]

MarkSuccessMap(f, k) == [f EXCEPT ![k] = 0]

\* a reset that clears the counts of the unhealthy keys only
ResetAllMap_Unhealthy(f) == [k \in DOMAIN f |-> IF f[k] >= max_failures THEN 0 ELSE f[k]]

ResetAllMap(f) == [k \in DOMAIN f |-> 0]

(***************************************************************************)
(* APIKeyPool.get_key                                                      *)
(***************************************************************************)
\* the list `available` of get_key
Eligible(u, f) ==
    SelectSeq(GetAvailableKeys(u, KeySeq), LAMBDA k : IsHealthy(f, k))

\* an error that counts as failed only the keys beyond max_failures
Failed_Beyond(f) == SelectSeq(KeySeq, LAMBDA k : f[k] > max_failures)

\* the lists `exhausted` and `failed` of get_key's error
Exhausted(u) == SelectSeq(KeySeq, LAMBDA k : ~IsAvailable(u, k))
Failed(f) == SelectSeq(KeySeq, LAMBDA k : ~IsHealthy(f, k))

ErrorMsg(u, f) ==
    [exhausted |-> Len(Exhausted(u)), failed |-> Len(Failed(f)),
     total |-> Len(KeySeq), limit |-> daily_limit]

\* a loop over one position fewer than there are keys
RECURSIVE RoundRobinScan_Short(_, _, _)
RoundRobinScan_Short(available, idx, i) ==
    IF i >= nkeys - 1 THEN nkeys - 1
    ELSE IF KeySeq[((idx + i) % nkeys) + 1] \in Range(available) THEN i + 1
    ELSE RoundRobinScan_Short(available, idx, i + 1)

\* _get_round_robin: the number of cursor positions the loop visits, i of them
\* already visited without finding a key of `available`
RECURSIVE RoundRobinScan(_, _, _)
RoundRobinScan(available, idx, i) ==
    IF i >= nkeys THEN nkeys
    ELSE IF KeySeq[((idx + i) % nkeys) + 1] \in Range(available) THEN i + 1
    ELSE RoundRobinScan(available, idx, i + 1)

\* _get_round_robin: the key returned
RoundRobinKey(available, idx) ==
    LET n == RoundRobinScan(available, idx, 0)
        k == KeySeq[((idx + n - 1) % nkeys) + 1]
    IN  IF k \in Range(available) THEN k ELSE available[1]

\* a cursor that moves one position per call, whatever the loop skipped
RoundRobinIndex_OneStep(available, idx) == idx + 1

\* _get_round_robin: the cursor after the call
RoundRobinIndex(available, idx) == idx + RoundRobinScan(available, idx, 0)

\* a pick that ignores the usage counts
LeastUsedKey_First(available, u) == available[1]

\* _get_least_used: min() returns the first minimal element
LeastUsedKey(available, u) ==
    LET first == CHOOSE i \in DOMAIN available :
                    /\ \A j \in DOMAIN available : u[available[i]] <= u[available[j]]
                    /\ \A j \in 1..(i - 1) : u[available[j]] > u[available[i]]
    IN  available[first]

\* the keys get_key may return from a non-empty `available`
GetKeyPicks(available, u, idx) ==
    IF strategy = "round_robin" THEN {RoundRobinKey(available, idx)}
    ELSE IF strategy = "least_used" THEN {LeastUsedKey(available, u)}
    ELSE Range(available)

\* a get_key that moves the cursor under every strategy
GetKeyIndex_AnyStrategy(available, idx) == RoundRobinIndex(available, idx)

\* the cursor after get_key returned from a non-empty `available`
GetKeyIndex(available, idx) ==
    IF strategy = "round_robin" THEN RoundRobinIndex(available, idx) ELSE idx

(***************************************************************************)
(* APIKeyInfo.parse. A str is a sequence of characters. None is a value    *)
(* that is no str.                                                         *)
(***************************************************************************)
None == <<"None">>

\* the characters of the key strings: a letter, the separator, whitespace
Chars == {"a", ":", " "}

\* the strs of at most n characters
Strings(n) == UNION {[1..m -> Chars] : m \in 0..n}

\* str.split(":")
RECURSIVE Split(_)
Split(s) ==
    IF \A i \in DOMAIN s : s[i] # ":" THEN <<s>>
    ELSE LET i == CHOOSE c \in DOMAIN s :
                    s[c] = ":" /\ \A b \in 1..(c - 1) : s[b] # ":"
         IN  <<SubSeq(s, 1, i - 1)>> \o Split(SubSeq(s, i + 1, Len(s)))

\* ":".join(parts)
RECURSIVE Join(_)
Join(parts) ==
    IF parts = <<>> THEN <<>>
    ELSE IF Len(parts) = 1 THEN parts[1]
    ELSE parts[1] \o <<":">> \o Join(Tail(parts))

RECURSIVE LStrip(_)
LStrip(s) == IF s # <<>> /\ Head(s) = " " THEN LStrip(Tail(s)) ELSE s

RECURSIVE RStrip(_)
RStrip(s) ==
    IF s # <<>> /\ s[Len(s)] = " " THEN RStrip(SubSeq(s, 1, Len(s) - 1)) ELSE s

\* a strip that leaves the whitespace at the end
Strip_Left(s) == LStrip(s)

\* str.strip()
Strip(s) == RStrip(LStrip(s))

\* f"key-{default_index}"
DefaultAlias(default_index) == <<"k", "e", "y", "-", ToString(default_index)>>

\* `project_id or default_project_id`: the empty str is false
OrDefault(project_id, default_project_id) ==
    IF project_id # <<>> THEN project_id ELSE default_project_id

\* APIKeyInfo.parse(key_string, default_index, default_project_id)
Parse(key_string, default_index, default_project_id) ==
    LET parts == Split(key_string) IN
        IF Len(parts) >= 3
        THEN [key |-> Strip(parts[1]),
              alias |-> Strip(parts[2]),
              project_id |-> OrDefault(Strip(Join(SubSeq(parts, 3, Len(parts)))),
                                       default_project_id)]
        ELSE IF Len(parts) = 2
        THEN [key |-> Strip(parts[1]),
              alias |-> Strip(parts[2]),
              project_id |-> default_project_id]
        ELSE [key |-> Strip(key_string),
              alias |-> DefaultAlias(default_index),
              project_id |-> default_project_id]

\* no call of parse made yet
NotParsed == [key_string |-> <<>>, default_index |-> 0, default_project_id |-> None,
              info |-> [key |-> None, alias |-> None, project_id |-> None]]

\* APIKeyInfo.parse is called
CallParse(s, i, d) ==
    /\ parsed' = [key_string |-> s, default_index |-> i, default_project_id |-> d,
                  info |-> Parse(s, i, d)]
    /\ UNCHANGED <<cfgvars, poolvars, today, pc, locals, counters, returned, trackvars,
                   alias, reportvars, frame>>

(***************************************************************************)
(* Construction                                                            *)
(***************************************************************************)
TypeOK ==
    /\ nkeys \in 1..MaxPoolKeys
    /\ strategy \in Strategies
    /\ usage \in [Keys -> Nat]
    /\ active \in [Keys -> Nat]
    /\ failures \in [Keys -> Nat]
    /\ rr_index \in Nat
    /\ last_reset \in 0..MaxDay
    /\ today \in 0..MaxDay
    /\ key \in [Procs -> 0..nkeys]
    /\ tried \in [Procs -> SUBSET Keys]

\* APIKeyPool.__init__(keys, ...) with a list of key strings, each parsed with
\* its index in the list, and no call made yet
InitPoolOf(keys, s, dl, mc, mf) ==
    /\ nkeys = Len(keys)
    /\ alias = [k \in DOMAIN keys |-> Parse(keys[k], k - 1, None).alias]
    /\ parsed = NotParsed
    /\ pos = [p \in Procs |-> 0]
    /\ status = [p \in Procs |-> <<>>]
    /\ summands = [p \in Procs |-> <<>>]
    /\ strategy = s
    /\ daily_limit = dl
    /\ max_concurrent = mc
    /\ max_failures = mf
    /\ usage = [k \in DOMAIN keys |-> 0]
    /\ last_reset = 0
    /\ active = [k \in DOMAIN keys |-> 0]
    /\ failures = [k \in DOMAIN keys |-> 0]
    /\ rr_index = 0
    /\ today = 0
    /\ pc = [p \in Procs |-> "idle"]
    /\ key = [p \in Procs |-> 0]
    /\ attempts = [p \in Procs |-> 0]
    /\ acquired = [p \in Procs |-> FALSE]
    /\ attempt = [p \in Procs |-> 0]
    /\ tried = [p \in Procs |-> {}]
    /\ max_retries = [p \in Procs |-> 0]
    /\ on_success = [p \in Procs |-> "none"]
    /\ last_error = [p \in Procs |-> "none"]
    /\ call_count = [p \in Procs |-> 0]
    /\ result = [p \in Procs |-> 0]
    /\ error = [p \in Procs |-> "none"]
    /\ msg = [p \in Procs |-> NoMsg]
    /\ ncalls = 0
    /\ nruns = 0
    /\ returned = <<>>
    /\ lock = [l \in Locks |-> 0]
    /\ frame = [p \in Procs |-> NoFrame]
    /\ method = [p \in Procs |-> NoMethod]
    /\ called_on = [p \in Procs |-> 0]
    /\ current = [p \in Procs |-> 0]
    /\ ret = [p \in Procs |-> NoRet]
    /\ incs = [k \in DOMAIN keys |-> 0]
    /\ count_days = [k \in DOMAIN keys |-> {}]
    /\ fails_since = [k \in DOMAIN keys |-> 0]

\* a key string without alias: "k1", "k2", ...
PlainKey(i) == <<"k", ToString(i)>>

\* APIKeyPool.__init__ with n plain key strings
InitPool(n, s, dl, mc, mf) == InitPoolOf([i \in 1..n |-> PlainKey(i)], s, dl, mc, mf)

(***************************************************************************)
(* Direct calls of the pool's bookkeeping methods (each one locked step)   *)
(***************************************************************************)
\* the clock passes midnight
Tick ==
    /\ today < MaxDay
    /\ today' = today + 1
    /\ UNCHANGED <<cfgvars, restvars, returned, trackvars, poolvars, pc, locals, counters>>

\* APIKeyPool.mark_used(k): increment, then get_remaining for the log line
MarkUsed(k) ==
    /\ ncalls < MaxCalls
    /\ ncalls' = ncalls + 1
    /\ usage' = [UsageNow EXCEPT ![k] = @ + 1]
    /\ last_reset' = LastResetNow
    /\ UNCHANGED <<cfgvars, restvars, returned, trackvars,
                   active, failures, rr_index, today, pc, locals, nruns>>

\* APIKeyPool.mark_failed(k, error)
MarkFailed(k) ==
    /\ ncalls < MaxCalls
    /\ ncalls' = ncalls + 1
    /\ failures' = MarkFailedMap(failures, k)
    /\ UNCHANGED <<cfgvars, restvars, returned, trackvars,
                   usage, last_reset, active, rr_index, today, pc, locals, nruns>>

\* APIKeyPool.mark_success(k)
MarkSuccess(k) ==
    /\ ncalls < MaxCalls
    /\ ncalls' = ncalls + 1
    /\ failures' = MarkSuccessMap(failures, k)
    /\ UNCHANGED <<cfgvars, restvars, returned, trackvars,
                   usage, last_reset, active, rr_index, today, pc, locals, nruns>>

\* APIKeyPool.reset_failures()
ResetFailures ==
    /\ ncalls < MaxCalls
    /\ ncalls' = ncalls + 1
    /\ failures' = ResetAllMap(failures)
    /\ UNCHANGED <<cfgvars, restvars, returned, trackvars,
                   usage, last_reset, active, rr_index, today, pc, locals, nruns>>

\* APIKeyPool.acquire(k), called directly
Acquire(k) ==
    /\ ncalls < MaxCalls
    /\ ncalls' = ncalls + 1
    /\ active' = AcquireMap(active, k)
    /\ UNCHANGED <<cfgvars, restvars, returned, trackvars,
                   usage, last_reset, failures, rr_index, today, pc, locals, nruns>>

\* APIKeyPool.release(k), called directly
Release(k) ==
    /\ ncalls < MaxCalls
    /\ ncalls' = ncalls + 1
    /\ active' = ReleaseMap(active, k)
    /\ UNCHANGED <<cfgvars, restvars, returned, trackvars,
                   usage, last_reset, failures, rr_index, today, pc, locals, nruns>>

(***************************************************************************)
(* The tracker methods, called by thread p: the call, `with self._lock`,   *)
(* the reads under the lock, then the writes, the return value and the     *)
(* release of the lock                                                     *)
(***************************************************************************)
UsageMethods ==
    {"increment", "get_usage", "is_available", "get_remaining", "get_available_keys"}
ConcurrencyMethods == {"acquire", "release", "can_acquire", "get_active"}
FailureMethods ==
    {"mark_failed", "mark_success", "is_healthy", "get_failure_count", "reset_all"}

\* the tracker a method belongs to
TrackerOf(m) ==
    IF m \in UsageMethods THEN "usage"
    ELSE IF m \in ConcurrencyMethods THEN "concurrency"
    ELSE "failures"

\* a `with self._lock` that does not wait
LockFree_Always(t) == TRUE

\* `with self._lock` can be entered
LockFree(t) == lock[t] = 0

\* the clock is set back across midnight
ClockBack ==
    /\ today > 0
    /\ today' = today - 1
    /\ UNCHANGED <<cfgvars, restvars, returned, trackvars, poolvars, pc, locals, counters>>

\* thread p calls method m of its tracker for key k
TCall(p, m, k) ==
    /\ pc[p] = "idle"
    /\ ncalls < MaxTrackerCalls
    /\ ncalls' = ncalls + 1
    /\ method' = [method EXCEPT ![p] = [name |-> m, key |-> k]]
    /\ pc' = [pc EXCEPT ![p] = "t_lock"]
    /\ UNCHANGED <<cfgvars, restvars, returned, poolvars, today, locals, nruns, lock, called_on,
                   current, ret, incs, count_days, fails_since>>

\* with self._lock:
TLock(p) ==
    /\ pc[p] = "t_lock"
    /\ LockFree(TrackerOf(method[p].name))
    /\ lock' = [lock EXCEPT ![TrackerOf(method[p].name)] = p]
    /\ pc' = [pc EXCEPT ![p] = "t_read"]
    /\ UNCHANGED <<cfgvars, restvars, returned, poolvars, today, locals, counters, method,
                   called_on, current, ret, incs, count_days, fails_since>>

\* the reads of the locked section: the usage methods run _check_daily_reset
\* and read the count of the key, the others read their tracker's count
TRead(p) ==
    LET m == method[p].name
        k == method[p].key
    IN  /\ pc[p] = "t_read"
        /\ IF m \in UsageMethods
           THEN /\ called_on' = [called_on EXCEPT ![p] = today]
                /\ usage' = CheckDailyReset(usage, last_reset, today)
                /\ last_reset' = CheckDailyResetDate(last_reset, today)
                /\ count_days' = IF today > last_reset
                                 THEN [j \in Keys |-> {}]
                                 ELSE count_days
                /\ current' = [current EXCEPT ![p] = usage'[k]]
           ELSE /\ current' = [current EXCEPT ![p] =
                                  IF m \in ConcurrencyMethods THEN active[k]
                                  ELSE failures[k]]
                /\ UNCHANGED <<called_on, usage, last_reset, count_days>>
        /\ pc' = [pc EXCEPT ![p] = "t_write"]
        /\ UNCHANGED <<cfgvars, restvars, returned, active, failures, rr_index, today, locals,
                       counters, lock, method, ret, incs, fails_since>>

\* what a method returns, having read `c` under the lock
Returns(m, c, u) ==
    CASE m = "get_usage" -> c
      [] m = "is_available" -> c < daily_limit
      [] m = "get_remaining" -> Max(0, daily_limit - c)
      [] m = "get_available_keys" -> GetAvailableKeys(u, KeySeq)
      [] m = "acquire" -> c < max_concurrent
      [] m = "can_acquire" -> c < max_concurrent
      [] m = "get_active" -> c
      [] m = "is_healthy" -> c < max_failures
      [] m = "get_failure_count" -> c
      [] OTHER -> NoRet

\* the writes of the locked section, the return value, and the end of the
\* `with` block
TWrite(p) ==
    LET m == method[p].name
        k == method[p].key
        c == current[p]
    IN  /\ pc[p] = "t_write"
        /\ usage' = IF m = "increment" THEN [usage EXCEPT ![k] = c + 1] ELSE usage
        /\ active' = IF m = "acquire" /\ c < max_concurrent
                        THEN [active EXCEPT ![k] = c + 1]
                     ELSE IF m = "release" /\ c > 0
                        THEN [active EXCEPT ![k] = c - 1]
                     ELSE active
        /\ failures' = IF m = "mark_failed" THEN [failures EXCEPT ![k] = c + 1]
                       ELSE IF m = "mark_success" THEN MarkSuccessMap(failures, k)
                       ELSE IF m = "reset_all" THEN ResetAllMap(failures)
                       ELSE failures
        /\ ret' = [ret EXCEPT ![p] = Returns(m, c, usage)]
        /\ incs' = IF m = "increment" THEN [incs EXCEPT ![k] = @ + 1] ELSE incs
        /\ count_days' = IF m = "increment"
                         THEN [count_days EXCEPT ![k] = @ \cup {called_on[p]}]
                         ELSE count_days
        /\ fails_since' = IF m = "mark_failed" THEN [fails_since EXCEPT ![k] = @ + 1]
                          ELSE IF m = "mark_success" THEN [fails_since EXCEPT ![k] = 0]
                          ELSE IF m = "reset_all" THEN [j \in Keys |-> 0]
                          ELSE fails_since
        /\ lock' = [lock EXCEPT ![TrackerOf(m)] = 0]
        /\ pc' = [pc EXCEPT ![p] = "t_done"]
        /\ UNCHANGED <<cfgvars, restvars, returned, last_reset, rr_index, today, locals, counters,
                       method, called_on, current>>

\* the caller has the return value and goes on
TReturn(p) ==
    /\ pc[p] = "t_done"
    /\ pc' = [pc EXCEPT ![p] = "idle"]
    /\ method' = [method EXCEPT ![p] = NoMethod]
    /\ current' = [current EXCEPT ![p] = 0]
    /\ called_on' = [called_on EXCEPT ![p] = 0]
    /\ ret' = [ret EXCEPT ![p] = NoRet]
    /\ UNCHANGED <<cfgvars, restvars, returned, poolvars, today, locals, counters, lock,
                   incs, count_days, fails_since>>

(***************************************************************************)
(* get_key, called directly by thread p                                    *)
(***************************************************************************)
GetKey(p) ==
    /\ pc[p] = "idle"
    /\ nruns < MaxGetKeys
    /\ nruns' = nruns + 1
    /\ usage' = UsageNow
    /\ last_reset' = LastResetNow
    /\ pc' = [pc EXCEPT ![p] = "g_done"]
    /\ LET available == Eligible(UsageNow, failures) IN
        IF available = <<>>
        THEN /\ error' = [error EXCEPT ![p] = "NoKeys"]
             /\ msg' = [msg EXCEPT ![p] = ErrorMsg(UsageNow, failures)]
             /\ UNCHANGED <<result, rr_index, returned>>
        ELSE /\ \E k \in GetKeyPicks(available, UsageNow, rr_index) :
                    /\ result' = [result EXCEPT ![p] = k]
                    /\ returned' = Append(returned,
                                          [key |-> k, available |-> Range(available)])
             /\ rr_index' = GetKeyIndex(available, rr_index)
             /\ UNCHANGED <<error, msg>>
    /\ UNCHANGED <<cfgvars, restvars, trackvars, active, failures, today, key, attempts,
                   acquired, attempt,
                   tried, max_retries, on_success, last_error, call_count, ncalls>>

(***************************************************************************)
(* use_key, called by thread p                                             *)
(***************************************************************************)
\* key = self.get_key(); attempts = 0
UseStart(p) ==
    /\ pc[p] = "idle"
    /\ nruns < MaxUses
    /\ nruns' = nruns + 1
    /\ usage' = UsageNow
    /\ last_reset' = LastResetNow
    /\ LET available == Eligible(UsageNow, failures) IN
        IF available = <<>>
        THEN /\ error' = [error EXCEPT ![p] = "NoKeys"]
             /\ pc' = [pc EXCEPT ![p] = "u_done"]
             /\ UNCHANGED <<key, rr_index>>
        ELSE /\ \E k \in GetKeyPicks(available, UsageNow, rr_index) :
                    key' = [key EXCEPT ![p] = k]
             /\ rr_index' = GetKeyIndex(available, rr_index)
             /\ pc' = [pc EXCEPT ![p] = "u_acquire"]
             /\ UNCHANGED error
    /\ UNCHANGED <<cfgvars, restvars, returned, trackvars,
                   active, failures, today, attempts, acquired, attempt, tried,
                   max_retries, on_success, last_error, call_count, result, msg, ncalls>>

\* a loop `while not self.acquire(key)` without the bound on attempts
UseAcquire_Unbounded(p) ==
    /\ pc[p] = "u_acquire"
    /\ active' = AcquireMap(active, key[p])
    /\ acquired' = [acquired EXCEPT ![p] = active[key[p]] < max_concurrent]
    /\ IF acquired'[p]
       THEN /\ pc' = [pc EXCEPT ![p] = "u_block"]
            /\ result' = [result EXCEPT ![p] = key[p]]
            /\ UNCHANGED attempts
       ELSE /\ pc' = [pc EXCEPT ![p] = "u_scan"]
            /\ attempts' = [attempts EXCEPT ![p] = @ + 1]
            /\ UNCHANGED result
    /\ UNCHANGED <<cfgvars, restvars, returned, trackvars,
                   usage, last_reset, failures, rr_index, today, key, attempt,
                   tried, max_retries, on_success, last_error, call_count, error, msg,
                   counters>>

\* one evaluation of the loop condition
\*   while not self.acquire(key) and attempts < len(self._keys)
\* and, when it is true, attempts += 1
UseAcquire(p) ==
    /\ pc[p] = "u_acquire"
    /\ active' = AcquireMap(active, key[p])
    /\ acquired' = [acquired EXCEPT ![p] = active[key[p]] < max_concurrent]
    /\ IF acquired'[p] \/ attempts[p] >= nkeys
       THEN /\ pc' = [pc EXCEPT ![p] = "u_block"]
            /\ result' = [result EXCEPT ![p] = key[p]]
            /\ UNCHANGED attempts
       ELSE /\ pc' = [pc EXCEPT ![p] = "u_scan"]
            /\ attempts' = [attempts EXCEPT ![p] = @ + 1]
            /\ UNCHANGED result
    /\ UNCHANGED <<cfgvars, restvars, returned, trackvars,
                   usage, last_reset, failures, rr_index, today, key, attempt,
                   tried, max_retries, on_success, last_error, call_count, error, msg,
                   counters>>

\* a scan that does not ask can_acquire
ConcurrentAvailable_AnySlot(u, a, f) ==
    SelectSeq(GetAvailableKeys(u, KeySeq), LAMBDA k : IsHealthy(f, k))

\* the list `available` of use_key's loop body
ConcurrentAvailable(u, a, f) ==
    SelectSeq(GetAvailableKeys(u, KeySeq),
              LAMBDA k : CanAcquire(a, k) /\ IsHealthy(f, k))

\* the loop body after attempts += 1: raise, or key = available[0]
UseScan(p) ==
    /\ pc[p] = "u_scan"
    /\ usage' = UsageNow
    /\ last_reset' = LastResetNow
    /\ LET available == ConcurrentAvailable(UsageNow, active, failures) IN
        IF available = <<>>
        THEN /\ error' = [error EXCEPT ![p] = "NoConcurrent"]
             /\ pc' = [pc EXCEPT ![p] = "u_done"]
             /\ UNCHANGED key
        ELSE /\ key' = [key EXCEPT ![p] = available[1]]
             /\ pc' = [pc EXCEPT ![p] = "u_acquire"]
             /\ UNCHANGED error
    /\ UNCHANGED <<cfgvars, restvars, returned, trackvars,
                   active, failures, rr_index, today, attempts, acquired,
                   attempt, tried, max_retries, on_success, last_error, call_count,
                   result, msg, counters>>

\* the with-block ends, normally or by an exception: finally: self.release(key)
UseExit(p, raised) ==
    /\ pc[p] = "u_block"
    /\ active' = ReleaseMap(active, key[p])
    /\ error' = [error EXCEPT ![p] = IF raised THEN "BlockError" ELSE "none"]
    /\ pc' = [pc EXCEPT ![p] = "u_done"]
    /\ UNCHANGED <<cfgvars, restvars, returned, trackvars,
                   usage, last_reset, failures, rr_index, today, key, attempts,
                   acquired, attempt, tried, max_retries, on_success, last_error,
                   call_count, result, msg, counters>>

(***************************************************************************)
(* execute_with_retry, called by thread p                                  *)
(***************************************************************************)
\* last_error = None; tried_keys = set(); the for loop is entered, or with
\* max_retries = 0 skipped to the final raise
ExecStart(p, mr, cb) ==
    /\ pc[p] = "idle"
    /\ nruns < MaxRuns
    /\ nruns' = nruns + 1
    /\ max_retries' = [max_retries EXCEPT ![p] = mr]
    /\ on_success' = [on_success EXCEPT ![p] = cb]
    /\ IF mr = 0
       THEN /\ pc' = [pc EXCEPT ![p] = "e_done"]
            /\ error' = [error EXCEPT ![p] = "RetryExhausted"]
       ELSE /\ pc' = [pc EXCEPT ![p] = "e_select"]
            /\ UNCHANGED error
    /\ UNCHANGED <<cfgvars, restvars, returned, trackvars,
                   poolvars, today, key, attempts, acquired, attempt, tried,
                   last_error, call_count, result, msg, ncalls>>

\* the list `available` of the "avoid retrying with same failed key" branch
UntriedAvailable(u, f, tk) ==
    SelectSeq(GetAvailableKeys(u, KeySeq), LAMBDA k : k \notin tk /\ IsHealthy(f, k))

\* an attempt that goes on with whatever key get_key returned
AttemptKey_NoDivert(k, u, f, tk) == k

\* the key the attempt passes to the operation when get_key returned k
AttemptKey(k, u, f, tk) ==
    IF k \in tk /\ UntriedAvailable(u, f, tk) # <<>>
    THEN UntriedAvailable(u, f, tk)[1]
    ELSE k

\* the try block up to the call of the operation: get_key, the diversion to an
\* untried key, tried_keys.add(key); get_key's RuntimeError goes to the handler
ExecSelect(p) ==
    /\ pc[p] = "e_select"
    /\ usage' = UsageNow
    /\ last_reset' = LastResetNow
    /\ LET available == Eligible(UsageNow, failures) IN
        IF available = <<>>
        THEN /\ last_error' = [last_error EXCEPT ![p] = "NoKeys"]
             /\ pc' = [pc EXCEPT ![p] = "e_except"]
             /\ UNCHANGED <<key, tried, rr_index, call_count>>
        ELSE /\ \E k \in GetKeyPicks(available, UsageNow, rr_index) :
                  LET chosen == AttemptKey(k, UsageNow, failures, tried[p]) IN
                    /\ key' = [key EXCEPT ![p] = chosen]
                    /\ tried' = [tried EXCEPT ![p] = @ \cup {chosen}]
             /\ rr_index' = GetKeyIndex(available, rr_index)
             /\ call_count' = [call_count EXCEPT ![p] = @ + 1]
             /\ pc' = [pc EXCEPT ![p] = "e_await"]
             /\ UNCHANGED last_error
    /\ UNCHANGED <<cfgvars, restvars, returned, trackvars,
                   active, failures, today, attempts, acquired, attempt,
                   max_retries, on_success, result, error, msg, counters>>

\* a call that gives back a slot of its key when the operation returned
OpReturns_Releases(p) ==
    /\ pc[p] = "e_await"
    /\ pc' = [pc EXCEPT ![p] = "e_success"]
    /\ active' = ReleaseMap(active, key[p])
    /\ UNCHANGED <<cfgvars, restvars, returned, trackvars, usage, last_reset, failures, rr_index,
                   today, locals, counters>>

\* await operation(key) returns a result
OpReturns(p) ==
    /\ pc[p] = "e_await"
    /\ pc' = [pc EXCEPT ![p] = "e_success"]
    /\ UNCHANGED <<cfgvars, restvars, returned, trackvars, poolvars, today, locals, counters>>

\* await operation(key) raises
OpRaises(p) ==
    /\ pc[p] = "e_await"
    /\ last_error' = [last_error EXCEPT ![p] = "OpError"]
    /\ pc' = [pc EXCEPT ![p] = "e_except"]
    /\ UNCHANGED <<cfgvars, restvars, returned, trackvars,
                   poolvars, today, key, attempts, acquired, attempt, tried,
                   max_retries, on_success, call_count, result, error, msg, counters>>

\* the callbacks a caller passes as on_success: none, the pool's mark_used, or
\* a callable that raises
Callbacks == {"none", "mark_used", "raises"}

\* a success branch that records a use on every key the call has tried
ExecSuccess_RecordTried(p) ==
    /\ pc[p] = "e_success"
    /\ failures' = MarkSuccessMap(failures, key[p])
    /\ IF on_success[p] = "mark_used"
       THEN /\ usage' = [k \in Keys |-> IF k \in tried[p] THEN UsageNow[k] + 1
                                                          ELSE UsageNow[k]]
            /\ last_reset' = LastResetNow
       ELSE UNCHANGED <<usage, last_reset>>
    /\ IF on_success[p] = "raises"
       THEN /\ last_error' = [last_error EXCEPT ![p] = "CallbackError"]
            /\ pc' = [pc EXCEPT ![p] = "e_except"]
            /\ UNCHANGED result
       ELSE /\ result' = [result EXCEPT ![p] = key[p]]
            /\ pc' = [pc EXCEPT ![p] = "e_done"]
            /\ UNCHANGED last_error
    /\ UNCHANGED <<cfgvars, restvars, returned, trackvars,
                   active, rr_index, today, key, attempts, acquired, attempt,
                   tried, max_retries, on_success, call_count, error, msg,
                   counters>>

\* self.mark_success(key); on_success(key); return result. The callback runs
\* inside the try block: an exception it raises is caught by the except block
ExecSuccess(p) ==
    /\ pc[p] = "e_success"
    /\ failures' = MarkSuccessMap(failures, key[p])
    /\ IF on_success[p] = "mark_used"
       THEN /\ usage' = [UsageNow EXCEPT ![key[p]] = @ + 1]
            /\ last_reset' = LastResetNow
       ELSE UNCHANGED <<usage, last_reset>>
    /\ IF on_success[p] = "raises"
       THEN /\ last_error' = [last_error EXCEPT ![p] = "CallbackError"]
            /\ pc' = [pc EXCEPT ![p] = "e_except"]
            /\ UNCHANGED result
       ELSE /\ result' = [result EXCEPT ![p] = key[p]]
            /\ pc' = [pc EXCEPT ![p] = "e_done"]
            /\ UNCHANGED last_error
    /\ UNCHANGED <<cfgvars, restvars, returned, trackvars,
                   active, rr_index, today, key, attempts, acquired, attempt,
                   tried, max_retries, on_success, call_count, error, msg,
                   counters>>

\* an except block without the `if not available: break`
NoKeysLeft_Never(u, f) == FALSE

\* `if not available: break` of the except block
NoKeysLeft(u, f) == Eligible(u, f) = <<>>

\* a loop that runs one iteration more than range(max_retries)
LastAttempt_OneMore(a, mr) == a >= mr

\* range(max_retries) has no value after `a`
LastAttempt(a, mr) == a + 1 >= mr

\* the except block: self.mark_failed(key, e) with whatever `key` is bound to
\* (an unbound `key` raises UnboundLocalError out of the call), then the
\* recomputed `available`: break, or the next iteration, or the end of the loop
ExecExcept(p) ==
    /\ pc[p] = "e_except"
    /\ IF key[p] = 0
       THEN /\ error' = [error EXCEPT ![p] = "UnboundLocalError"]
            /\ pc' = [pc EXCEPT ![p] = "e_done"]
            /\ UNCHANGED <<failures, usage, last_reset, attempt>>
       ELSE /\ failures' = MarkFailedMap(failures, key[p])
            /\ usage' = UsageNow
            /\ last_reset' = LastResetNow
            /\ IF NoKeysLeft(UsageNow, failures') \/ LastAttempt(attempt[p], max_retries[p])
               THEN /\ error' = [error EXCEPT ![p] = "RetryExhausted"]
                    /\ pc' = [pc EXCEPT ![p] = "e_done"]
                    /\ UNCHANGED attempt
               ELSE /\ attempt' = [attempt EXCEPT ![p] = @ + 1]
                    /\ pc' = [pc EXCEPT ![p] = "e_select"]
                    /\ UNCHANGED error
    /\ UNCHANGED <<cfgvars, restvars, returned, trackvars,
                   active, rr_index, today, key, attempts, acquired, tried,
                   max_retries, on_success, last_error, call_count, result, msg, counters>>

(***************************************************************************)
(* get_total_remaining and get_status, called by thread p: one step for    *)
(* each key of the iteration, which makes the tracker calls for that key   *)
(***************************************************************************)
RECURSIVE Sum(_)
Sum(xs) == IF xs = <<>> THEN 0 ELSE Head(xs) + Sum(Tail(xs))

\* the generator of get_total_remaining is created
TotalStart(p) ==
    /\ pc[p] = "idle"
    /\ nruns < MaxReports
    /\ nruns' = nruns + 1
    /\ pos' = [pos EXCEPT ![p] = 0]
    /\ summands' = [summands EXCEPT ![p] = <<>>]
    /\ pc' = [pc EXCEPT ![p] = "r_key"]
    /\ UNCHANGED <<cfgvars, poolvars, today, locals, ncalls, returned, trackvars,
                   infovars, status, frame>>

\* a sum that counts the remaining quota of the unhealthy keys too
TotalTerm_AnyHealth(u, f, k) == GetRemaining(u, k)

\* what key k adds to the sum: get_remaining(k) if is_healthy(k)
TotalTerm(u, f, k) == IF IsHealthy(f, k) THEN GetRemaining(u, k) ELSE 0

\* the next key of `for key in self._keys`: is_healthy(key) and, for a healthy
\* key, get_remaining(key), which runs the daily reset; after the last key
\* sum() returns
TotalKey(p) ==
    LET k == KeySeq[pos[p] + 1]
        u == IF IsHealthy(failures, k) THEN UsageNow ELSE usage
    IN  /\ pc[p] = "r_key"
        /\ usage' = u
        /\ last_reset' = IF IsHealthy(failures, k) THEN LastResetNow ELSE last_reset
        /\ summands' = [summands EXCEPT ![p] = Append(@, TotalTerm(u, failures, k))]
        /\ pos' = [pos EXCEPT ![p] = @ + 1]
        /\ IF pos'[p] = nkeys
           THEN /\ pc' = [pc EXCEPT ![p] = "r_done"]
                /\ ret' = [ret EXCEPT ![p] = Sum(summands'[p])]
           ELSE UNCHANGED <<pc, ret>>
        /\ UNCHANGED <<cfgvars, active, failures, rr_index, today, locals, counters,
                       returned, lock, method, called_on, current, incs, count_days,
                       fails_since, infovars, status, frame>>

\* the dict comprehension of get_status starts
StatusStart(p) ==
    /\ pc[p] = "idle"
    /\ nruns < MaxReports
    /\ nruns' = nruns + 1
    /\ pos' = [pos EXCEPT ![p] = 0]
    /\ status' = [status EXCEPT ![p] = <<>>]
    /\ pc' = [pc EXCEPT ![p] = "s_key"]
    /\ UNCHANGED <<cfgvars, poolvars, today, locals, ncalls, returned, trackvars,
                   infovars, summands, frame>>

\* the value of the entry of key k; the preview of a key is its position
StatusEntry(u, a, f, k) ==
    [key_preview |-> k,
     used |-> u[k],
     remaining |-> GetRemaining(u, k),
     available |-> IsAvailable(u, k),
     active_concurrent |-> a[k],
     failure_count |-> f[k],
     healthy |-> IsHealthy(f, k)]

\* d[a] = e of a dict: a new entry, or a new value for the entry of a
DictSet(d, a, e) == [x \in DOMAIN d \cup {a} |-> IF x = a THEN e ELSE d[x]]

\* the next `info` of `for info in self._key_infos`: its entry is computed
\* (the usage reads run the daily reset) and stored under info.alias; after
\* the last one the dict is returned
StatusKey(p) ==
    LET k == KeySeq[pos[p] + 1] IN
        /\ pc[p] = "s_key"
        /\ usage' = UsageNow
        /\ last_reset' = LastResetNow
        /\ status' = [status EXCEPT ![p] =
                          DictSet(@, alias[k], StatusEntry(UsageNow, active, failures, k))]
        /\ pos' = [pos EXCEPT ![p] = @ + 1]
        /\ IF pos'[p] = nkeys
           THEN /\ pc' = [pc EXCEPT ![p] = "s_done"]
                /\ ret' = [ret EXCEPT ![p] = status'[p]]
           ELSE UNCHANGED <<pc, ret>>
        /\ UNCHANGED <<cfgvars, active, failures, rr_index, today, locals, counters,
                       returned, lock, method, called_on, current, incs, count_days,
                       fails_since, infovars, summands, frame>>

\* the caller has the sum or the dict and is free for the next call
ReportReturn(p) ==
    /\ pc[p] \in {"r_done", "s_done"}
    /\ pc' = [pc EXCEPT ![p] = "idle"]
    /\ pos' = [pos EXCEPT ![p] = 0]
    /\ status' = [status EXCEPT ![p] = <<>>]
    /\ summands' = [summands EXCEPT ![p] = <<>>]
    /\ ret' = [ret EXCEPT ![p] = NoRet]
    /\ UNCHANGED <<cfgvars, poolvars, today, locals, counters, returned, lock, method,
                   called_on, current, incs, count_days, fails_since, infovars,
                   frame>>

(***************************************************************************)
(* The locks of the pool operations.  An operation is the sequence of      *)
(* tracker calls its code makes; a call is the sequence of `with` entries  *)
(* and exits of the method and of the methods it calls.  How often a loop  *)
(* over the keys calls a method, and which branch is taken, depends on the *)
(* counts and is left open.  threading.Lock is not reentrant: an entry     *)
(* waits while the lock is held, by whichever thread.                      *)
(***************************************************************************)
Enter(l) == [op |-> "enter", lock |-> l]
Exit(l) == [op |-> "exit", lock |-> l]
Yield == [op |-> "yield", lock |-> "none"]

\* a method whose body is one `with self._lock:` block that calls no method
\* taking a lock (_check_daily_reset takes none)
WithLock(l) == <<Enter(l), Exit(l)>>

\* is_available and get_remaining holding the tracker lock around get_usage
MethodCode_Holding(m) ==
    IF m \in {"is_available", "get_remaining"}
    THEN <<Enter("usage")>> \o WithLock("usage") \o <<Exit("usage")>>
    ELSE WithLock(IF m = "_get_round_robin" THEN "pool" ELSE TrackerOf(m))

\* the lock entries and exits of one call of method m: is_available and
\* get_remaining take no lock themselves and call get_usage; _get_round_robin
\* holds the pool's lock around its loop; every other method is one block
\* under its tracker's lock
MethodCode(m) ==
    IF m \in {"is_available", "get_remaining"} THEN WithLock("usage")
    ELSE WithLock(IF m = "_get_round_robin" THEN "pool" ELSE TrackerOf(m))

\* a part of an operation: between lo and hi times, one of the call
\* sequences `codes`
Phase(codes, lo, hi) == [codes |-> codes, lo |-> lo, hi |-> hi]

\* method m called n times in a row
Times(m, n) == Phase({MethodCode(m)}, n, n)

\* get_key: get_available_keys asks is_available of every key, is_healthy
\* is asked of the keys under the limit; with nothing available both are
\* asked of every key for the message and RuntimeError is raised; otherwise
\* the strategy chooses: round robin under the pool's lock, least used by
\* get_usage of the available keys, random without a call
GetKeyPlan(raises) ==
    <<Times("is_available", nkeys), Phase({MethodCode("is_healthy")}, 0, nkeys)>>
    \o IF raises
       THEN <<Times("is_available", nkeys), Times("is_healthy", nkeys)>>
       ELSE IF strategy = "round_robin" THEN <<Times("_get_round_robin", 1)>>
       ELSE IF strategy = "least_used" THEN <<Phase({MethodCode("get_usage")}, 1, nkeys)>>
       ELSE <<>>

\* one pass of the loop of use_key after a failed acquire: the keys under the
\* limit are asked can_acquire and, those that can, is_healthy
UseKeyScanPlan ==
    <<Times("is_available", nkeys),
      Phase({MethodCode("can_acquire"),
             MethodCode("can_acquire") \o MethodCode("is_healthy")}, 0, nkeys)>>

RECURSIVE UseKeyLoopPlan(_)
\* j passes of the loop of use_key, each after an acquire that failed
UseKeyLoopPlan(j) ==
    IF j = 0 THEN <<>>
    ELSE UseKeyLoopPlan(j - 1) \o <<Times("acquire", 1)>> \o UseKeyScanPlan

\* use_key: get_key, j passes of the loop, then either RuntimeError out of
\* the last pass, or the acquire that ends the loop, the caller's block and
\* the release of the finally clause
UseKeyPlan(j, raises) ==
    GetKeyPlan(FALSE) \o UseKeyLoopPlan(j)
    \o IF raises THEN <<>>
       ELSE <<Times("acquire", 1), Phase({<<Yield>>}, 1, 1), Times("release", 1)>>

\* the calls that make one entry of the dict of get_status
StatusEntryCode ==
    MethodCode("get_usage") \o MethodCode("get_remaining") \o MethodCode("is_available")
    \o MethodCode("get_active") \o MethodCode("get_failure_count")
    \o MethodCode("is_healthy")

\* the pool operations a thread can call, each with the calls it makes
Operations ==
    {[op |-> "get_key", raises |-> r, plan |-> GetKeyPlan(r)] : r \in BOOLEAN}
    \cup {[op |-> "use_key", raises |-> TRUE, plan |-> GetKeyPlan(TRUE)]}
    \cup {[op |-> "use_key", raises |-> FALSE, plan |-> UseKeyPlan(j, FALSE)] :
              j \in 0..nkeys}
    \cup {[op |-> "use_key", raises |-> TRUE, plan |-> UseKeyPlan(j, TRUE)] :
              j \in 1..nkeys}
    \cup {[op |-> "mark_used", raises |-> FALSE,
           plan |-> <<Times("increment", 1), Times("get_remaining", 1)>>],
          [op |-> "mark_failed", raises |-> FALSE,
           plan |-> <<Times("mark_failed", 1), Times("get_failure_count", 1)>>],
          [op |-> "mark_success", raises |-> FALSE, plan |-> <<Times("mark_success", 1)>>],
          [op |-> "acquire", raises |-> FALSE, plan |-> <<Times("acquire", 1)>>],
          [op |-> "release", raises |-> FALSE, plan |-> <<Times("release", 1)>>],
          [op |-> "reset_failures", raises |-> FALSE, plan |-> <<Times("reset_all", 1)>>],
          [op |-> "get_status", raises |-> FALSE,
           plan |-> <<Phase({StatusEntryCode}, nkeys, nkeys)>>],
          [op |-> "get_total_remaining", raises |-> FALSE,
           plan |-> <<Phase({MethodCode("is_healthy"),
                             MethodCode("is_healthy") \o MethodCode("get_remaining")},
                            nkeys, nkeys)>>]}

\* the locks thread p holds
Held(p) == {l \in Locks : lock[l] = p}

\* thread p calls a pool operation
PoolCall(p) ==
    /\ pc[p] = "idle"
    /\ \E o \in Operations :
          frame' = [frame EXCEPT ![p] = [op |-> o.op, raises |-> o.raises,
                                         plan |-> o.plan, reps |-> 0, todo |-> <<>>]]
    /\ pc' = [pc EXCEPT ![p] = "l_run"]
    /\ UNCHANGED <<cfgvars, poolvars, today, locals, counters, returned, trackvars,
                   infovars, reportvars>>

\* the operation makes the next call of the part it is in
NextCall(p) ==
    /\ pc[p] = "l_run"
    /\ frame[p].todo = <<>>
    /\ frame[p].plan # <<>>
    /\ frame[p].reps < Head(frame[p].plan).hi
    /\ \E code \in Head(frame[p].plan).codes :
          frame' = [frame EXCEPT ![p].todo = code, ![p].reps = @ + 1]
    /\ UNCHANGED <<cfgvars, poolvars, today, pc, locals, counters, returned, trackvars,
                   infovars, reportvars>>

\* the operation is through with the part it is in
NextPhase(p) ==
    /\ pc[p] = "l_run"
    /\ frame[p].todo = <<>>
    /\ frame[p].plan # <<>>
    /\ frame[p].reps >= Head(frame[p].plan).lo
    /\ frame' = [frame EXCEPT ![p].plan = Tail(@), ![p].reps = 0]
    /\ UNCHANGED <<cfgvars, poolvars, today, pc, locals, counters, returned, trackvars,
                   infovars, reportvars>>

\* `with self._lock:` is entered: the thread waits until the lock is free
LockEnter(p) ==
    /\ pc[p] = "l_run"
    /\ frame[p].todo # <<>>
    /\ Head(frame[p].todo).op = "enter"
    /\ lock[Head(frame[p].todo).lock] = 0
    /\ lock' = [lock EXCEPT ![Head(frame[p].todo).lock] = p]
    /\ frame' = [frame EXCEPT ![p].todo = Tail(@)]
    /\ UNCHANGED <<cfgvars, poolvars, today, pc, locals, counters, returned, method,
                   called_on, current, ret, incs, count_days, fails_since,
                   infovars, reportvars>>

\* the `with` block is left and its lock released
LockExit(p) ==
    /\ pc[p] = "l_run"
    /\ frame[p].todo # <<>>
    /\ Head(frame[p].todo).op = "exit"
    /\ lock' = [lock EXCEPT ![Head(frame[p].todo).lock] = 0]
    /\ frame' = [frame EXCEPT ![p].todo = Tail(@)]
    /\ UNCHANGED <<cfgvars, poolvars, today, pc, locals, counters, returned, method,
                   called_on, current, ret, incs, count_days, fails_since,
                   infovars, reportvars>>

\* the caller's block of `with pool.use_key()` runs
UseBlock(p) ==
    /\ pc[p] = "l_run"
    /\ frame[p].todo # <<>>
    /\ Head(frame[p].todo).op = "yield"
    /\ frame' = [frame EXCEPT ![p].todo = Tail(@)]
    /\ UNCHANGED <<cfgvars, poolvars, today, pc, locals, counters, returned, trackvars,
                   infovars, reportvars>>

\* the operation returns or raises
PoolReturn(p) ==
    /\ pc[p] = "l_run"
    /\ frame[p].todo = <<>>
    /\ frame[p].plan = <<>>
    /\ pc' = [pc EXCEPT ![p] = "idle"]
    /\ frame' = [frame EXCEPT ![p] = NoFrame]
    /\ UNCHANGED <<cfgvars, poolvars, today, locals, counters, returned, trackvars,
                   infovars, reportvars>>

(***************************************************************************)
(* The caller has its result or exception and is free for the next call    *)
(***************************************************************************)
Return(p) ==
    /\ pc[p] \in {"g_done", "u_done", "e_done"}
    /\ pc' = [pc EXCEPT ![p] = "idle"]
    /\ key' = [key EXCEPT ![p] = 0]
    /\ attempts' = [attempts EXCEPT ![p] = 0]
    /\ acquired' = [acquired EXCEPT ![p] = FALSE]
    /\ attempt' = [attempt EXCEPT ![p] = 0]
    /\ tried' = [tried EXCEPT ![p] = {}]
    /\ max_retries' = [max_retries EXCEPT ![p] = 0]
    /\ on_success' = [on_success EXCEPT ![p] = "none"]
    /\ last_error' = [last_error EXCEPT ![p] = "none"]
    /\ call_count' = [call_count EXCEPT ![p] = 0]
    /\ result' = [result EXCEPT ![p] = 0]
    /\ error' = [error EXCEPT ![p] = "none"]
    /\ msg' = [msg EXCEPT ![p] = NoMsg]
    /\ UNCHANGED <<cfgvars, restvars, returned, trackvars, poolvars, today, counters>>

(***************************************************************************)
(* Specifications                                                          *)
(***************************************************************************)
\* any pool the bounds allow, freshly constructed
Init ==
    \E n \in 1..MaxKeys, s \in Strategies, dl \in 1..MaxDailyLimit,
       mc \in 1..MaxConcurrent, mf \in 1..MaxFailures :
        InitPool(n, s, dl, mc, mf)

\* One client thread calls get_key, use_key and execute_with_retry one after the
\* other, while the bookkeeping methods are called from any thread and the
\* clock runs.
Client == CHOOSE p \in Procs : \A q \in Procs : p <= q

Next ==
    \/ Tick
    \/ \E k \in Keys : MarkUsed(k)
    \/ \E k \in Keys : MarkFailed(k)
    \/ \E k \in Keys : MarkSuccess(k)
    \/ ResetFailures
    \/ \E k \in Keys : Acquire(k)
    \/ \E k \in Keys : Release(k)
    \/ nruns < MaxUses /\ GetKey(Client)
    \/ UseStart(Client)
    \/ UseAcquire(Client)
    \/ UseScan(Client)
    \/ \E raised \in BOOLEAN : UseExit(Client, raised)
    \/ \E mr \in 0..MaxRetries, cb \in Callbacks :
            ExecStart(Client, mr, cb)
    \/ ExecSelect(Client)
    \/ OpReturns(Client)
    \/ OpRaises(Client)
    \/ ExecSuccess(Client)
    \/ ExecExcept(Client)
    \/ Return(Client)

\* the client's pool allows one concurrent use per key
InitClient ==
    \E n \in 1..MaxKeys, s \in Strategies, dl \in 1..MaxDailyLimit,
       mf \in 1..MaxFailures :
        InitPool(n, s, dl, 1, mf)

Spec == InitClient /\ [][Next]_vars

(***************************************************************************)
(* Threads that only enter and leave use_key blocks, on a pool whose keys  *)
(* other callers mark used or failed                                       *)
(***************************************************************************)
NextUseKey ==
    \/ \E k \in Keys : MarkUsed(k)
    \/ \E k \in Keys : MarkFailed(k)
    \/ \E p \in Procs : UseStart(p)
    \/ \E p \in Procs : UseAcquire(p)
    \/ \E p \in Procs : UseScan(p)
    \/ \E p \in Procs, raised \in BOOLEAN : UseExit(p, raised)
    \/ \E p \in Procs : Return(p)

SpecUseKey == Init /\ [][NextUseKey]_vars

\* a step of thread p inside the acquisition phase of use_key
UseStep(p) == UseAcquire(p) \/ UseScan(p)

\* every thread inside use_key keeps running
SpecUseKeyFair ==
    /\ Init
    /\ [][NextUseKey]_vars
    /\ \A p \in Procs : WF_vars(UseStep(p))

(***************************************************************************)
(* Concurrent execute_with_retry calls, all within one calendar day        *)
(***************************************************************************)
NextRetry ==
    \/ \E p \in Procs, mr \in 0..MaxRetries, cb \in Callbacks :
            ExecStart(p, mr, cb)
    \/ \E p \in Procs : ExecSelect(p)
    \/ \E p \in Procs : OpReturns(p)
    \/ \E p \in Procs : OpRaises(p)
    \/ \E p \in Procs : ExecSuccess(p)
    \/ \E p \in Procs : ExecExcept(p)
    \/ \E p \in Procs : Return(p)

\* execute_with_retry never reads max_concurrent_per_key
InitRetry ==
    \E n \in 1..MaxKeys, s \in Strategies, dl \in 1..MaxDailyLimit,
       mf \in 1..MaxFailures :
        InitPool(n, s, dl, MaxConcurrent, mf)

SpecRetry == InitRetry /\ [][NextRetry]_vars

\* a step of thread p inside execute_with_retry
ExecStep(p) ==
    \/ ExecSelect(p)
    \/ OpReturns(p)
    \/ OpRaises(p)
    \/ ExecSuccess(p)
    \/ ExecExcept(p)

\* every thread inside execute_with_retry keeps running and every invocation of
\* the operation ends; the pool is a round-robin pool (the default strategy)
InitRetryFair ==
    \E n \in 1..MaxKeys, dl \in 1..MaxDailyLimit, mf \in 1..MaxFailures :
        InitPool(n, "round_robin", dl, MaxConcurrent, mf)

SpecRetryFair ==
    /\ InitRetryFair
    /\ [][NextRetry]_vars
    /\ \A p \in Procs : WF_vars(ExecStep(p))

(***************************************************************************)
(* Concurrent execute_with_retry calls on a pool with one slot per key,    *)
(* while slots are acquired and released by direct calls                   *)
(***************************************************************************)
NextRetrySlots ==
    \/ \E k \in Keys : Acquire(k)
    \/ \E k \in Keys : Release(k)
    \/ \E p \in Procs, mr \in 0..MaxRetries, cb \in Callbacks :
            ExecStart(p, mr, cb)
    \/ \E p \in Procs : ExecSelect(p)
    \/ \E p \in Procs : OpReturns(p)
    \/ \E p \in Procs : OpRaises(p)
    \/ \E p \in Procs : ExecSuccess(p)
    \/ \E p \in Procs : ExecExcept(p)
    \/ \E p \in Procs : Return(p)

InitRetrySlots ==
    \E n \in 1..MaxKeys, s \in Strategies :
        InitPool(n, s, MaxDailyLimit, 1, MaxFailures)

SpecRetrySlots == InitRetrySlots /\ [][NextRetrySlots]_vars

(***************************************************************************)
(* Threads that only call get_key, on a pool of up to MaxPoolKeys keys     *)
(* whose keys other callers mark used or failed                            *)
(***************************************************************************)
NextGetKey ==
    \/ \E k \in Keys : MarkUsed(k)
    \/ \E k \in Keys : MarkFailed(k)
    \/ \E p \in Procs : GetKey(p)
    \/ \E p \in Procs : Return(p)

InitGetKey ==
    \E n \in 1..MaxPoolKeys, s \in Strategies, dl \in 1..MaxDailyLimit,
       mf \in 1..MaxFailures :
        InitPool(n, s, dl, MaxConcurrent, mf)

SpecGetKey == InitGetKey /\ [][NextGetKey]_vars

(***************************************************************************)
(* One thread enters and leaves use_key blocks; the other calls on the     *)
(* pool are made, and the clock moves, only while that thread is not in    *)
(* the middle of entering a block                                          *)
(***************************************************************************)
\* the client is not between the first and the last line of use_key's entry
Quiet == pc[Client] \notin {"u_acquire", "u_scan"}

NextUseKeySolo ==
    \/ Quiet /\ Tick
    \/ \E k \in Keys : Quiet /\ MarkUsed(k)
    \/ \E k \in Keys : Quiet /\ MarkFailed(k)
    \/ \E k \in Keys : Quiet /\ Acquire(k)
    \/ \E k \in Keys : Quiet /\ Release(k)
    \/ UseStart(Client)
    \/ UseAcquire(Client)
    \/ UseScan(Client)
    \/ \E raised \in BOOLEAN : UseExit(Client, raised)
    \/ Return(Client)

SpecUseKeySolo == Init /\ [][NextUseKeySolo]_vars

(***************************************************************************)
(* Threads calling the methods of one tracker, built as the pool builds it *)
(***************************************************************************)
\* the methods that take no key are called with the first key for a key
KeyArgs(m) == IF m \in {"get_available_keys", "reset_all"} THEN {1} ELSE Keys

\* KeyUsageTracker, while the clock runs and is set
NextUsage ==
    \/ Tick
    \/ ClockBack
    \/ \E p \in Procs, m \in UsageMethods : \E k \in KeyArgs(m) : TCall(p, m, k)
    \/ \E p \in Procs : TLock(p)
    \/ \E p \in Procs : TRead(p)
    \/ \E p \in Procs : TWrite(p)
    \/ \E p \in Procs : TReturn(p)

InitUsage ==
    \E n \in 1..MaxKeys, dl \in 1..MaxDailyLimit :
        InitPool(n, "round_robin", dl, MaxConcurrent, MaxFailures)

SpecUsage == InitUsage /\ [][NextUsage]_vars

\* ConcurrencyTracker
NextConcurrency ==
    \/ \E p \in Procs, m \in ConcurrencyMethods, k \in Keys : TCall(p, m, k)
    \/ \E p \in Procs : TLock(p)
    \/ \E p \in Procs : TRead(p)
    \/ \E p \in Procs : TWrite(p)
    \/ \E p \in Procs : TReturn(p)

InitConcurrency ==
    \E n \in 1..MaxKeys, mc \in 1..MaxConcurrent :
        InitPool(n, "round_robin", MaxDailyLimit, mc, MaxFailures)

SpecConcurrency == InitConcurrency /\ [][NextConcurrency]_vars

\* FailureTracker
NextFailures ==
    \/ \E p \in Procs, m \in FailureMethods : \E k \in KeyArgs(m) : TCall(p, m, k)
    \/ \E p \in Procs : TLock(p)
    \/ \E p \in Procs : TRead(p)
    \/ \E p \in Procs : TWrite(p)
    \/ \E p \in Procs : TReturn(p)

InitFailures ==
    \E n \in 1..MaxKeys, mf \in 1..MaxFailures :
        InitPool(n, "round_robin", MaxDailyLimit, MaxConcurrent, mf)

SpecFailures == InitFailures /\ [][NextFailures]_vars

\* the calls of mark_used (increment, then get_remaining for the log line) and
\* of mark_failed (mark_failed, then get_failure_count), and reads of the
\* counts, from concurrent threads within one day
AtomicMethods ==
    {"increment", "get_remaining", "get_usage", "mark_failed", "get_failure_count"}

NextAtomic ==
    \/ \E p \in Procs, m \in AtomicMethods, k \in Keys : TCall(p, m, k)
    \/ \E p \in Procs : TLock(p)
    \/ \E p \in Procs : TRead(p)
    \/ \E p \in Procs : TWrite(p)
    \/ \E p \in Procs : TReturn(p)

InitAtomic ==
    \E n \in 1..MaxKeys :
        InitPool(n, "round_robin", MaxDailyLimit, MaxConcurrent, MaxFailures)

SpecAtomic == InitAtomic /\ [][NextAtomic]_vars

(***************************************************************************)
(* APIKeyInfo.parse, called once with any key string, index and default    *)
(* project id                                                              *)
(***************************************************************************)
NextParse ==
    /\ parsed = NotParsed
    /\ \E s \in Strings(MaxStringLen), i \in 0..MaxIndex, d \in {None, <<"d">>} :
            CallParse(s, i, d)

InitParse ==
    InitPool(MaxKeys, "round_robin", MaxDailyLimit, MaxConcurrent, MaxFailures)

SpecParse == InitParse /\ [][NextParse]_vars

(***************************************************************************)
(* Threads calling get_total_remaining while keys are marked used, failed  *)
(* and successful by other callers and the clock runs                      *)
(***************************************************************************)
NextTotal ==
    \/ Tick
    \/ \E k \in Keys : MarkUsed(k)
    \/ \E k \in Keys : MarkFailed(k)
    \/ \E k \in Keys : MarkSuccess(k)
    \/ \E p \in Procs : TotalStart(p)
    \/ \E p \in Procs : TotalKey(p)
    \/ \E p \in Procs : ReportReturn(p)

InitTotal ==
    \E n \in 1..MaxKeys, dl \in 1..MaxDailyLimit, mf \in 1..MaxFailures :
        InitPool(n, "round_robin", dl, MaxConcurrent, mf)

SpecTotal == InitTotal /\ [][NextTotal]_vars

(***************************************************************************)
(* Threads calling get_status on pools built from key strings with and     *)
(* without aliases; bookkeeping calls run between the snapshots, never     *)
(* during one, and within one day                                          *)
(***************************************************************************)
\* the forms of the key string of the i-th key: "ki", "ki:p", "ki:key-1"
KeyStrings(i) ==
    {PlainKey(i),
     PlainKey(i) \o <<":", "p">>,
     PlainKey(i) \o <<":">> \o DefaultAlias(1)}

\* the lists of n key strings, the i-th in one of its forms
KeyLists(n) == {keys \in [1..n -> UNION {KeyStrings(i) : i \in 1..n}] :
                   \A i \in 1..n : keys[i] \in KeyStrings(i)}

\* no get_status call is under way
NoSnapshot == \A p \in Procs : pc[p] # "s_key"

NextStatus ==
    \/ NoSnapshot /\ \E k \in Keys : MarkUsed(k)
    \/ NoSnapshot /\ \E k \in Keys : MarkFailed(k)
    \/ NoSnapshot /\ \E k \in Keys : MarkSuccess(k)
    \/ NoSnapshot /\ \E k \in Keys : Acquire(k)
    \/ NoSnapshot /\ \E k \in Keys : Release(k)
    \/ \E p \in Procs : StatusStart(p)
    \/ \E p \in Procs : StatusKey(p)
    \/ \E p \in Procs : ReportReturn(p)

InitStatus ==
    \E n \in 1..MaxKeys, keys \in KeyLists(MaxKeys),
       dl \in 1..MaxDailyLimit, mf \in 1..MaxFailures :
        InitPoolOf(SubSeq(keys, 1, n), "round_robin", dl, MaxConcurrent, mf)

SpecStatus == InitStatus /\ [][NextStatus]_vars

(***************************************************************************)
(* Threads calling the pool operations freely, seen as the locks they take *)
(***************************************************************************)
NextLocks ==
    \/ \E p \in Procs : PoolCall(p)
    \/ \E p \in Procs : NextCall(p)
    \/ \E p \in Procs : NextPhase(p)
    \/ \E p \in Procs : LockEnter(p)
    \/ \E p \in Procs : LockExit(p)
    \/ \E p \in Procs : UseBlock(p)
    \/ \E p \in Procs : PoolReturn(p)

InitLocks ==
    \E n \in 1..MaxKeys, s \in Strategies :
        InitPool(n, s, MaxDailyLimit, MaxConcurrent, MaxFailures)

SpecLocks == InitLocks /\ [][NextLocks]_vars

(***************************************************************************)
(* Claims                                                                  *)
(***************************************************************************)
\* the threads inside a use_key block that was yielded key k
InBlock(k) == {p \in Procs : pc[p] = "u_block" /\ key[p] = k}

\* C1: under any interleaving of threads entering and leaving use_key blocks,
\* at most max_concurrent_per_key callers are inside a block for one key, and
\* a caller is inside a block only after its own acquire succeeded.
C1_BlockBoundedAndAcquired ==
    /\ \A k \in Keys : Cardinality(InBlock(k)) <= max_concurrent
    /\ \A p \in Procs : pc[p] = "u_block" => acquired[p]

\* C2: use_key releases exactly the slot it acquired: a caller raises the
\* in-flight count of its key by one while it is inside the block and by
\* nothing before and after, so with only use_key callers the in-flight count
\* of a key is the number of callers inside a block for it; use_key changes
\* no usage and no failure count.
C2_SlotHeldExactlyInBlock ==
    [][/\ \A k \in Keys : active'[k] = Cardinality({p \in Procs : pc'[p] = "u_block" /\ key'[p] = k})
       /\ \A p \in Procs :
            pc[p] \in {"u_acquire", "u_scan", "u_block"} /\ pc'[p] # pc[p]
                => usage' = usage /\ failures' = failures]_vars

\* thread p takes step `from -> to` of its call
Moves(p, from, to) == pc[p] = from /\ pc'[p] = to

\* thread p leaves the place `from`
Leaves(p, from) == pc[p] = from /\ pc'[p] # from

\* C3: when an invocation of the operation returns, execute_with_retry resets
\* the failure count of that key to 0, calls on_success(key) once if there is
\* one (with mark_used: the usage of that key, and of no other, rises by one),
\* returns the result of that invocation, and does not invoke the operation
\* again in that call.
C3_SuccessEndsCall ==
    [][\A p \in Procs :
         /\ Leaves(p, "e_success") =>
              /\ failures'[key[p]] = 0
              /\ \A k \in Keys \ {key[p]} : failures'[k] = failures[k]
              /\ usage' = IF on_success[p] = "mark_used"
                          THEN [usage EXCEPT ![key[p]] = @ + 1]
                          ELSE usage
              /\ pc'[p] = "e_done"
              /\ error'[p] = "none"
              /\ result'[p] = key[p]
              /\ call_count'[p] = call_count[p]
         /\ pc[p] = "e_done" => pc'[p] \in {"e_done", "idle"}]_vars

\* C4: every failing outcome of execute_with_retry is the retry-exhaustion
\* RuntimeError; when no key is under quota and healthy as an attempt selects
\* its key, no failure count changes and the call fails with that error.
C4_AlwaysRetryExhausted ==
    [][\A p \in Procs :
         /\ pc[p] # "e_done" /\ pc'[p] = "e_done" /\ error'[p] # "none"
                => error'[p] = "RetryExhausted"
         /\ Leaves(p, "e_except") /\ last_error[p] = "NoKeys"
                => failures' = failures /\ error'[p] = "RetryExhausted"]_vars

\* C5: within execute_with_retry a failure count rises only by the handling of
\* an invocation that raised, on the key of that invocation and by one, and
\* every invocation that raised is counted.
C5_FailureCountedPerRaise ==
    [][/\ \A p \in Procs :
            Leaves(p, "e_except") /\ last_error[p] = "OpError"
                => failures'[key[p]] = failures[key[p]] + 1
       /\ \A k \in Keys :
            failures'[k] > failures[k]
                => /\ failures'[k] = failures[k] + 1
                   /\ \E p \in Procs : /\ Leaves(p, "e_except")
                                       /\ last_error[p] = "OpError"
                                       /\ key[p] = k]_vars

\* C6: with every use recorded by on_success = mark_used, no key's usage count
\* exceeds daily_limit.
C6_QuotaEnforced == \A k \in Keys : usage[k] <= daily_limit

\* key k is under its daily quota and healthy in the state a step leaves
EligibleAfter(k) == usage'[k] < daily_limit /\ failures'[k] < max_failures

\* C7: every key the pool selects was under its daily quota and healthy when
\* the selecting step evaluated it: the key get_key returns, the key
\* execute_with_retry passes to the operation (diverted or not) and the key
\* use_key goes on with (from get_key or from its fallback scan); on a two-key
\* pool whose first key is at its daily limit or at max_failures get_key
\* returns the second key.
C7_SelectedKeyEligible ==
    [][\A p \in Procs :
         /\ Moves(p, "idle", "g_done") /\ error'[p] = "none"
                => /\ EligibleAfter(result'[p])
                   /\ nkeys = 2 /\ ~EligibleAfter(1) => result'[p] = 2
         /\ Moves(p, "idle", "u_acquire") => EligibleAfter(key'[p])
         /\ Moves(p, "u_scan", "u_acquire") => EligibleAfter(key'[p])
         /\ Moves(p, "e_select", "e_await") => EligibleAfter(key'[p])]_vars

\* C7 happens: a retry was diverted from the tried first key, which get_key
\* returned again, to the second key
C7_Witness ==
    /\ pc[Client] = "e_await"
    /\ strategy = "least_used"
    /\ attempt[Client] = 1
    /\ tried[Client] = {1, 2}
    /\ key[Client] = 2
    /\ failures[1] = 1
    /\ failures[1] < max_failures
    /\ usage[1] < daily_limit

\* the counts get_key's error reports, from the state the raising step leaves
MsgAfter ==
    [exhausted |-> Cardinality({k \in Keys : usage'[k] >= daily_limit}),
     failed |-> Cardinality({k \in Keys : failures'[k] >= max_failures}),
     total |-> nkeys, limit |-> daily_limit]

\* C8 as claimed: get_key raises iff no key is under quota and healthy, its
\* error carries the two counts, the number of keys and the daily limit, and a
\* raising get_key changes no tracker state (no usage count, no in-flight
\* count, no failure count) and not the cursor.
C8_RaiseChangesNothing ==
    [][\A p \in Procs :
         Moves(p, "idle", "g_done") =>
            /\ error'[p] = "NoKeys" <=> \A k \in Keys : ~EligibleAfter(k)
            /\ error'[p] = "NoKeys" =>
                  /\ msg'[p] = MsgAfter
                  /\ <<usage, active, failures, rr_index>>' =
                     <<usage, active, failures, rr_index>>]_vars

\* C8 amended: ... a raising get_key changes no failure count, no in-flight
\* count and not the cursor, and changes the usage tracker only by the lazy
\* daily reset: called on a later day than the last reset it clears every
\* usage count and sets the last-reset date, otherwise it changes nothing.
C8_RaiseOnlyResetsDay ==
    [][\A p \in Procs :
         Moves(p, "idle", "g_done") =>
            /\ error'[p] = "NoKeys" <=> \A k \in Keys : ~EligibleAfter(k)
            /\ error'[p] = "NoKeys" =>
                  /\ msg'[p] = MsgAfter
                  /\ <<active, failures, rr_index>>' = <<active, failures, rr_index>>
                  /\ IF today > last_reset
                     THEN usage' = [k \in Keys |-> 0] /\ last_reset' = today
                     ELSE usage' = usage /\ last_reset' = last_reset]_vars

\* C8 happens: get_key raised on a two-key pool with one key exhausted and the
\* other unhealthy
C8_Witness ==
    /\ nkeys = 2
    /\ pc[Client] = "g_done"
    /\ error[Client] = "NoKeys"
    /\ msg[Client] = [exhausted |-> 1, failed |-> 1, total |-> 2, limit |-> daily_limit]
    /\ usage[1] >= daily_limit
    /\ failures[1] = 0
    /\ failures[2] >= max_failures
    /\ usage[2] = 0

\* thread p is inside execute_with_retry, its outcome included
InExec(p) == pc[p] \in {"e_select", "e_await", "e_success", "e_except", "e_done"}

\* C9: a call of execute_with_retry invokes the operation at most max_retries
\* times; if every invocation ends the call ends, with the result of an
\* invocation that returned or with an exception, and it returns a value only
\* from an invocation that returned; with max_retries = 0 the operation is not
\* invoked and the call fails.
C9_BoundedAndTerminates ==
    /\ [](\A p \in Procs :
             /\ InExec(p) => call_count[p] <= max_retries[p]
             /\ pc[p] = "e_done" /\ max_retries[p] = 0
                    => call_count[p] = 0 /\ error[p] # "none")
    /\ [][\A p \in Procs :
             pc[p] # "e_done" /\ pc'[p] = "e_done" /\ error'[p] = "none"
                 => /\ pc[p] = "e_success"
                    /\ result'[p] = key[p]
                    /\ call_count[p] >= 1]_vars
    /\ \A p \in Procs :
          (pc[p] \in {"e_select", "e_await", "e_success", "e_except"})
              ~> (pc[p] = "e_done")

\* C9 happens: a call used up all of its three attempts and failed
C9_Witness ==
    \E p \in Procs :
        /\ pc[p] = "e_done"
        /\ max_retries[p] = 3
        /\ call_count[p] = 3
        /\ error[p] = "RetryExhausted"

\* C10: when the except block has recorded an invocation that raised and no
\* key is under quota and healthy, the call fails without another invocation
\* although attempts remain; on a one-key pool with max_failures_per_key = 1
\* the call invokes the operation once, whatever max_retries >= 1 is.
C10_StopsWhenNoKeyLeft ==
    [][\A p \in Procs :
         Leaves(p, "e_except") /\ last_error[p] = "OpError" =>
            /\ (\A k \in Keys : ~EligibleAfter(k))
                  => /\ pc'[p] = "e_done"
                     /\ error'[p] = "RetryExhausted"
                     /\ call_count'[p] = call_count[p]
            /\ nkeys = 1 /\ max_failures = 1
                  => /\ pc'[p] = "e_done"
                     /\ call_count'[p] = 1]_vars

\* C10 happens: a call with three attempts failed after its first invocation
\* raised on the only key
C10_Witness ==
    \E p \in Procs :
        /\ nkeys = 1
        /\ max_failures = 1
        /\ pc[p] = "e_done"
        /\ error[p] = "RetryExhausted"
        /\ last_error[p] = "OpError"
        /\ max_retries[p] = 3
        /\ call_count[p] = 1

\* C11: within one call of execute_with_retry, under every rotation strategy,
\* an attempt passes to the operation a key the call has already tried only if
\* at that attempt no untried key is under its daily quota and healthy.
C11_RetryOnTriedOnlyIfNoUntried ==
    [][\A p \in Procs :
         Moves(p, "e_select", "e_await") /\ key'[p] \in tried[p]
             => \A k \in Keys \ tried[p] : ~EligibleAfter(k)]_vars

\* C11 happens: the second attempt of a call on a two-key pool went to the key
\* of its first attempt, the other key being exhausted or unhealthy
C11_Witness ==
    \E p \in Procs :
        /\ nkeys = 2
        /\ pc[p] = "e_await"
        /\ call_count[p] = 2
        /\ tried[p] = {1}
        /\ key[p] = 1
        /\ usage[2] >= daily_limit \/ failures[2] >= max_failures

\* thread p takes a step of its execute_with_retry call
ExecMoves(p) ==
    /\ pc'[p] # pc[p]
    /\ pc'[p] \in {"e_select", "e_await", "e_success", "e_except", "e_done"}

\* thread p returns from the success branch of a call with on_success = mark_used
RecordsUse(p) ==
    /\ pc[p] = "e_success"
    /\ on_success[p] = "mark_used"

UsageToday == IF today > last_reset THEN [k \in Keys |-> 0] ELSE usage

SameEligible(i, j, E) == \A h \in i..j : returned[h].available = E

\* the key of E that follows key k in cyclic key-list order
CyclicNext(k, E) ==
    CHOOSE e \in E : \A d \in E : ((e - k - 1) % nkeys) <= ((d - k - 1) % nkeys)

\* C13: while the set of eligible keys does not change, round-robin get_key
\* returns the eligible keys in cyclic key-list order, whichever thread calls:
\* on a fresh pool with every key eligible the i-th call returns
\* keys[(i-1) mod n], each call returns the eligible key that cyclically
\* follows the key of the call before, and any m consecutive calls over m
\* eligible keys return each of them once.
C13_RoundRobinCyclic ==
    strategy = "round_robin" =>
        /\ \A i \in DOMAIN returned :
              SameEligible(1, i, Keys)
                  => returned[i].key = KeySeq[((i - 1) % nkeys) + 1]
        /\ \A i \in DOMAIN returned :
              i > 1 /\ returned[i].available = returned[i - 1].available
                  => returned[i].key =
                         CyclicNext(returned[i - 1].key, returned[i].available)
        /\ \A i \in DOMAIN returned :
              LET E == returned[i].available
                  j == i + Cardinality(E) - 1
              IN  j <= Len(returned) /\ SameEligible(i, j, E)
                      => /\ {returned[h].key : h \in i..j} = E
                         /\ \A g, h \in i..j :
                               g # h => returned[g].key # returned[h].key

\* C13 happens: five calls on a fresh round-robin pool of three keys, all
\* eligible, returned k1, k2, k3, k1, k2
C13_Witness ==
    /\ strategy = "round_robin"
    /\ nkeys = 3
    /\ Len(returned) = 5
    /\ SameEligible(1, 5, {1, 2, 3})
    /\ [i \in 1..5 |-> returned[i].key] = <<1, 2, 3, 1, 2>>

\* C14: under the least-used strategy get_key returns an eligible key whose
\* usage count is minimal among the eligible keys and, among the eligible keys
\* of that count, the earliest in key order.
C14_LeastUsedMinimalEarliest ==
    [][\A p \in Procs :
         strategy = "least_used" /\ Moves(p, "idle", "g_done") /\ error'[p] = "none"
            => LET r == result'[p] IN
                /\ EligibleAfter(r)
                /\ \A k \in Keys :
                      EligibleAfter(k)
                          => /\ usage'[r] <= usage'[k]
                             /\ usage'[k] = usage'[r] => r <= k]_vars

\* C14 happens: get_key returned the second key, the first one being eligible
\* but more used
C14_Witness ==
    \E p \in Procs :
        /\ strategy = "least_used"
        /\ pc[p] = "g_done"
        /\ error[p] = "none"
        /\ result[p] = 2
        /\ usage[2] < usage[1]
        /\ usage[1] < daily_limit
        /\ failures[1] < max_failures

\* key k is under its daily quota, healthy and below its concurrency cap, by
\* the usage counts a step leaves and the other counts it found
UsableAt(k) ==
    /\ usage'[k] < daily_limit
    /\ failures[k] < max_failures
    /\ active[k] < max_concurrent

\* C15: with no concurrent caller, use_key raises, yielding nothing, exactly
\* when no key is at once under its daily quota, healthy and below its
\* concurrency cap; when there is such a key it yields a key that is all
\* three and holds its slot (after at most one failed acquire and one scan);
\* and no step of an entry that ends by raising changes an in-flight count.
C15_UseKeySolo ==
    [][\A p \in Procs :
         /\ Moves(p, "idle", "u_done") \/ Moves(p, "u_scan", "u_done")
                => /\ error'[p] \in {"NoKeys", "NoConcurrent"}
                   /\ \A k \in Keys : ~UsableAt(k)
                   /\ active' = active
         /\ Moves(p, "idle", "u_acquire") => active' = active
         /\ Moves(p, "u_acquire", "u_scan")
                => /\ active' = active
                   /\ attempts[p] = 0
         /\ Moves(p, "u_scan", "u_acquire")
                => /\ active' = active
                   /\ UsableAt(key'[p])
         /\ Moves(p, "u_acquire", "u_block")
                => /\ result'[p] = key[p]
                   /\ UsableAt(key[p])
                   /\ acquired'[p]
                   /\ active' = [active EXCEPT ![key[p]] = @ + 1]]_vars

\* C15 happens: the key get_key returned was at its concurrency cap and
\* use_key yielded the second key, found by its scan
C15_Witness ==
    /\ nkeys = 2
    /\ pc[Client] = "u_block"
    /\ attempts[Client] = 1
    /\ acquired[Client]
    /\ key[Client] = 2
    /\ active[1] = max_concurrent
    /\ usage[1] < daily_limit
    /\ failures[1] < max_failures

\* thread p ends the locked section of method m for key k
Completes(p, m, k) ==
    /\ Moves(p, "t_write", "t_done")
    /\ method[p] = [name |-> m, key |-> k]

\* C16: under any interleaving of acquire and release calls every in-flight
\* count stays in 0..max_per_key; acquire(key) returns true and adds one when
\* the count is below max_per_key, and otherwise returns false and changes
\* nothing; release(key) takes one off when the count is positive and
\* otherwise changes nothing; nothing else changes a count. (So max_per_key
\* acquires in a row succeed, the next fails, and after one release one more
\* succeeds.)
C16_SlotsBounded ==
    /\ [](\A k \in Keys : active[k] \in 0..max_concurrent)
    /\ [][/\ \A p \in Procs, k \in Keys :
               /\ Completes(p, "acquire", k) =>
                     IF active[k] < max_concurrent
                     THEN ret'[p] = TRUE /\ active' = [active EXCEPT ![k] = @ + 1]
                     ELSE ret'[p] = FALSE /\ active' = active
               /\ Completes(p, "release", k) =>
                     IF active[k] > 0
                     THEN active' = [active EXCEPT ![k] = @ - 1]
                     ELSE active' = active
          /\ active' # active =>
               \E p \in Procs, k \in Keys :
                   Completes(p, "acquire", k) \/ Completes(p, "release", k)]_vars

\* C16 happens: with max_per_key = 2 and both slots of a key taken an acquire
\* of that key returned false while another thread is about to release
C16_Witness ==
    \E p, q \in Procs, k \in Keys :
        /\ max_concurrent = 2
        /\ active[k] = 2
        /\ pc[p] = "t_done"
        /\ method[p] = [name |-> "acquire", key |-> k]
        /\ ret[p] = FALSE
        /\ pc[q] = "t_lock"
        /\ method[q] = [name |-> "release", key |-> k]

\* C19: for every sequence of mark_failed, mark_success and reset_all calls
\* the failure count of a key is the number of mark_failed calls on it since
\* its last mark_success or the last reset_all, and is_healthy(key) is true
\* exactly when that number is below max_failures (a key never failed is
\* healthy, the max_failures-th failure in a row makes it unhealthy);
\* mark_success leaves the key at count 0, healthy, and no other key changed.
C19_HealthyIffFewFailures ==
    /\ [](\A k \in Keys : failures[k] = fails_since[k])
    /\ [][\A p \in Procs, k \in Keys :
             /\ Completes(p, "is_healthy", k)
                   => ret'[p] = (fails_since[k] < max_failures)
             /\ Completes(p, "get_failure_count", k) => ret'[p] = fails_since[k]
             /\ Completes(p, "mark_failed", k)
                   => failures' = [failures EXCEPT ![k] = @ + 1]
             /\ Completes(p, "mark_success", k)
                   => /\ failures' = [failures EXCEPT ![k] = 0]
                      /\ failures'[k] < max_failures]_vars

\* C19 happens: with max_failures = 2 a key failed twice, is_healthy returned
\* false to a thread, and a mark_success of another thread has since left the
\* key at count 0
C19_Witness ==
    \E p, q \in Procs, k \in Keys :
        /\ max_failures = 2
        /\ pc[q] = "t_done"
        /\ method[q] = [name |-> "is_healthy", key |-> k]
        /\ ret[q] = FALSE
        /\ pc[p] = "t_done"
        /\ method[p] = [name |-> "mark_success", key |-> k]
        /\ failures[k] = 0

\* thread p runs the daily check and the read of a usage method
ChecksDay(p) ==
    /\ Moves(p, "t_read", "t_write")
    /\ method[p].name \in UsageMethods

\* the usage methods that return counts or what follows from them
UsageReads == {"get_usage", "is_available", "get_remaining", "get_available_keys"}

\* the keys a call of method m for key k reads
KeysRead(m, k) == IF m = "get_available_keys" THEN Keys ELSE {k}

\* the lazy daily reset as every usage method performs it, and what increment
\* and get_usage do after it
LazyReset ==
    \A p \in Procs :
        /\ ChecksDay(p) =>
              IF today > last_reset
              THEN /\ usage' = [k \in Keys |-> 0]
                   /\ last_reset' = today
                   /\ current'[p] = 0
              ELSE /\ usage' = usage
                   /\ last_reset' = last_reset
        /\ \A k \in Keys :
              /\ Completes(p, "get_usage", k) => ret'[p] = usage[k] /\ ret'[p] = current[p]
              /\ Completes(p, "increment", k)
                    => usage' = [usage EXCEPT ![k] = current[p] + 1]

\* C17 as claimed: a usage method called on a later date than the last reset
\* clears every usage count and sets the last-reset date before it takes
\* effect (get_usage then returns 0, increment leaves 1), a call on the same
\* or an earlier date clears nothing, and no method returns a count
\* accumulated on an earlier day than the day of the call.
C17_NoCountFromEarlierDay ==
    [][/\ LazyReset
       /\ \A p \in Procs, m \in UsageReads, k \in Keys :
             Completes(p, m, k)
                 => \A j \in KeysRead(m, k) :
                       \A d \in count_days[j] : d >= called_on[p]]_vars

\* C17 amended: ... a call on the same or an earlier date clears nothing; a
\* method returns a count accumulated on an earlier day than the day of its
\* call only when the increments were made on a date before the last-reset
\* date, that is by calls made after the clock had been set back behind the
\* last reset.
C17_LazyDailyReset ==
    [][/\ LazyReset
       /\ \A p \in Procs, m \in UsageReads, k \in Keys :
             Completes(p, m, k)
                 => \A j \in KeysRead(m, k) :
                       \A d \in count_days[j] :
                           d < called_on[p] => d < last_reset]_vars

\* C17 happens: a key was incremented, and a get_usage called on the next day
\* returned 0
C17_Witness ==
    \E p \in Procs, k \in Keys :
        /\ pc[p] = "t_done"
        /\ method[p] = [name |-> "get_usage", key |-> k]
        /\ incs[k] >= 1
        /\ called_on[p] = 1
        /\ last_reset = 1
        /\ ret[p] = 0

\* C18: within one day, for every sequence of increments, get_usage(key) is
\* the number of increments of the key (0 when there was none), is_available
\* is true exactly when that number is below daily_limit (false at the limit),
\* and get_remaining is max(0, daily_limit - that number), never negative,
\* also when increments went on past the limit.
C18_UsageCountsIncrements ==
    [][\A p \in Procs, k \in Keys :
         /\ Completes(p, "get_usage", k) /\ last_reset = 0
               => ret'[p] = incs[k]
         /\ Completes(p, "is_available", k)
               => /\ ret'[p] = (usage[k] < daily_limit)
                  /\ last_reset = 0 => ret'[p] = (incs[k] < daily_limit)
         /\ Completes(p, "get_remaining", k)
               => /\ ret'[p] >= 0
                  /\ ret'[p] = (IF usage[k] < daily_limit
                                THEN daily_limit - usage[k] ELSE 0)
                  /\ last_reset = 0
                        => ret'[p] = (IF incs[k] < daily_limit
                                      THEN daily_limit - incs[k] ELSE 0)
         /\ Completes(p, "increment", k) /\ last_reset = 0
               => usage'[k] = incs'[k]]_vars

\* C18 happens: a key was incremented past its daily limit within the day and
\* get_remaining returned 0
C18_Witness ==
    \E p \in Procs, k \in Keys :
        /\ pc[p] = "t_done"
        /\ method[p] = [name |-> "get_remaining", key |-> k]
        /\ last_reset = 0
        /\ incs[k] > daily_limit
        /\ usage[k] = incs[k]
        /\ ret[p] = 0

\* the threads inside the locked section of tracker t
InLocked(t) ==
    {p \in Procs : pc[p] \in {"t_read", "t_write"} /\ TrackerOf(method[p].name) = t}

\* C20: tracker updates are atomic under concurrent callers: within one day
\* the usage count of a key is the number of mark_used (increment) calls
\* completed on it and its failure count, with no success between, the number
\* of mark_failed calls completed on it, whatever the interleaving (no update
\* is lost); the locked sections of one tracker do not overlap; and a read
\* returns the count some serial order of the calls gives: the number of
\* updates completed when it returns.
C20_NoLostUpdate ==
    /\ [](\A k \in Keys : usage[k] = incs[k] /\ failures[k] = fails_since[k])
    /\ [](\A t \in Trackers : Cardinality(InLocked(t)) <= 1)
    /\ [][\A p \in Procs, k \in Keys :
             /\ Completes(p, "increment", k) => usage'[k] = usage[k] + 1
             /\ Completes(p, "mark_failed", k) => failures'[k] = failures[k] + 1
             /\ Completes(p, "get_usage", k) => ret'[p] = incs[k]
             /\ Completes(p, "get_failure_count", k) => ret'[p] = fails_since[k]]_vars

\* C20 happens: increments of two threads on the same key have both completed
\* and a get_usage of the key returned 2
C20_Witness ==
    \E p, q \in Procs, k \in Keys :
        /\ p # q
        /\ pc[p] = "t_done"
        /\ method[p] = [name |-> "get_usage", key |-> k]
        /\ ret[p] = 2
        /\ pc[q] = "t_done"
        /\ method[q] = [name |-> "increment", key |-> k]
        /\ incs[k] = 2

\* C21: reset_failures() sets the failure count of every key to 0, so that
\* every key is healthy, and leaves every usage count, every in-flight count
\* and the round-robin cursor as they were.
C21_ResetFailuresFrame ==
    [][ResetFailures =>
          /\ \A k \in Keys : failures'[k] = 0 /\ failures'[k] < max_failures
          /\ <<usage, last_reset, active, rr_index>>' =
             <<usage, last_reset, active, rr_index>>]_vars

\* C21 happens: an execute_with_retry call without callback failed once on
\* each of two keys, which made both unhealthy, a use was recorded by one
\* direct call, and the only other direct call left both failure counts at 0,
\* which of the direct calls only reset_failures does
C21_Witness ==
    /\ nkeys = 2
    /\ max_failures = 1
    /\ pc[Client] = "e_done"
    /\ error[Client] = "RetryExhausted"
    /\ on_success[Client] = "none"
    /\ tried[Client] = {1, 2}
    /\ call_count[Client] = 2
    /\ today = 0
    /\ usage[1] = 1
    /\ ncalls = 2
    /\ \A k \in Keys : failures[k] = 0

\* thread p runs get_key: called directly, as the first line of use_key, or
\* in the try block of execute_with_retry
RunsGetKey(p) ==
    \/ Moves(p, "idle", "g_done")
    \/ Moves(p, "idle", "u_acquire") \/ Moves(p, "idle", "u_done")
    \/ Moves(p, "e_select", "e_await") \/ Moves(p, "e_select", "e_except")

\* get_key raised
GetKeyRaised(p) ==
    \/ Moves(p, "idle", "g_done") /\ error'[p] = "NoKeys"
    \/ Moves(p, "idle", "u_done")
    \/ Moves(p, "e_select", "e_except")

\* C27: get_key is pure selection: within one day it changes no usage count,
\* no failure count and no in-flight count (it records no use and reserves no
\* slot); the only state it advances is the round-robin cursor, and only
\* under the round-robin strategy.
C27_GetKeyPureSelection ==
    [][\A p \in Procs :
         RunsGetKey(p) =>
            /\ failures' = failures
            /\ active' = active
            /\ today <= last_reset => usage' = usage /\ last_reset' = last_reset
            /\ strategy # "round_robin" => rr_index' = rr_index
            /\ GetKeyRaised(p) => rr_index' = rr_index
            /\ rr_index' >= rr_index]_vars

\* C27 happens: get_key returned the first key of a round-robin pool, moving
\* the cursor, while the key has a recorded use and its slot is taken
C27_Witness ==
    /\ strategy = "round_robin"
    /\ pc[Client] = "g_done"
    /\ error[Client] = "none"
    /\ result[Client] = 1
    /\ rr_index = 1
    /\ today = last_reset
    /\ usage[1] = 1
    /\ active[1] = 1

\* C28: execute_with_retry never acquires or releases a concurrency slot: no
\* step of a call changes an in-flight count, so a key's in-flight count is
\* at every point of the call what it was before, and the number of
\* execute_with_retry operations running at once on one key is not limited by
\* max_concurrent_per_key.
C28_RetryTakesNoSlot ==
    [][\A p \in Procs : ExecMoves(p) => active' = active]_vars

\* C28 happens: with one slot per key, and that slot of the first key taken,
\* two calls have their operations in flight on the first key
C28_Witness ==
    /\ max_concurrent = 1
    /\ active[1] = 1
    /\ \A p \in Procs : pc[p] = "e_await" /\ key[p] = 1

\* the list `available` of get_key when the eligible keys are the set E
ListOf(E) == SelectSeq(KeySeq, LAMBDA k : k \in E)

\* the key at cursor position idx
KeyAt(idx) == KeySeq[(idx % nkeys) + 1]

\* C25: the fallback `return available[0]` of _get_round_robin is never
\* reached: called with a non-empty list of keys of the pool, for every cursor
\* value and whatever the callers did before, the loop over at most len(keys)
\* positions returns from inside, with an eligible key, the cursor having
\* advanced by between 1 and len(keys) positions.
C25_FallbackNeverReached ==
    /\ \A E \in (SUBSET Keys) \ {{}} : \A idx \in 0..(MaxGetKeys * MaxPoolKeys) :
          LET n == RoundRobinScan(ListOf(E), idx, 0) IN
             /\ n \in 1..nkeys
             /\ RoundRobinIndex(ListOf(E), idx) = idx + n
             /\ KeyAt(idx + n - 1) \in E
             /\ RoundRobinKey(ListOf(E), idx) = KeyAt(idx + n - 1)
             /\ \A i \in 0..(n - 2) : KeyAt(idx + i) \notin E
    /\ [][\A p \in Procs :
             /\ strategy = "round_robin"
             /\ Moves(p, "idle", "g_done")
             /\ error'[p] = "none"
             => /\ rr_index' - rr_index \in 1..nkeys
                /\ result'[p] = KeyAt(rr_index' - 1)
                /\ EligibleAfter(result'[p])
                /\ \A i \in rr_index..(rr_index' - 2) : ~EligibleAfter(KeyAt(i))]_vars

\* C25 happens: on a three-key pool whose only eligible key is the third, a
\* get_key with the cursor at 0 scanned all three positions and returned the
\* third key from the last one
C25_Witness ==
    \E p \in Procs :
        /\ strategy = "round_robin"
        /\ nkeys = 3
        /\ pc[p] = "g_done"
        /\ error[p] = "none"
        /\ result[p] = 3
        /\ rr_index = 3
        /\ Len(returned) = 1
        /\ returned[1].available = {3}

\* C26: use_key always completes its acquisition phase: under any
\* interleaving with other callers its fallback search makes at most
\* len(keys) iterations, and then the call yields a key or raises; it never
\* loops forever waiting for a slot.
C26_AcquisitionCompletes ==
    /\ [](\A p \in Procs : attempts[p] <= nkeys)
    /\ [][\A p \in Procs :
             /\ Moves(p, "u_acquire", "u_scan") => attempts'[p] = attempts[p] + 1
             /\ pc[p] \in {"u_acquire", "u_scan"} /\ pc'[p] # pc[p]
                   => pc'[p] \in {"u_acquire", "u_scan", "u_block", "u_done"}
             /\ ~Moves(p, "u_acquire", "u_scan") /\ pc'[p] # "idle"
                   => attempts'[p] = attempts[p]]_vars
    /\ \A p \in Procs :
          (pc[p] \in {"u_acquire", "u_scan"}) ~> (pc[p] \in {"u_block", "u_done"})

\* C26 happens: on a two-key pool a caller lost the slot of each key to
\* another caller in turn and was yielded a key after len(keys) iterations
C26_Witness ==
    \E p \in Procs :
        /\ nkeys = 2
        /\ pc[p] = "u_block"
        /\ attempts[p] = 2
        /\ acquired[p]

\* a usage accessor called by the step found a later day than the last reset
\* and cleared the counts
Rollover == last_reset' # last_reset

\* no key is healthy
AllUnhealthy == \A k \in Keys : failures[k] >= max_failures

\* mark_success(k) is called: directly, or by an execute_with_retry call whose
\* operation returned on k
MarkSuccessCalled(k) ==
    \/ MarkSuccess(k)
    \/ \E p \in Procs : Leaves(p, "e_success") /\ key[p] = k

\* C30: a day rollover clears usage counts only: it changes no failure count
\* and no in-flight count. So an unhealthy key stays unhealthy, on that day
\* and on every later day, until mark_success(key) or reset_failures() is
\* called, and is not selected while it is unhealthy; and while every key is
\* unhealthy a call of get_key, use_key or execute_with_retry that starts
\* with no operation in flight fails.
C30_UnhealthyAcrossDays ==
    [][/\ Rollover =>
            /\ active' = active
            /\ \A k \in Keys : usage'[k] <= 1
            /\ \A p \in Procs :
                  /\ Leaves(p, "e_except") /\ key[p] # 0
                        => failures' = [failures EXCEPT ![key[p]] = @ + 1]
                  /\ Leaves(p, "e_success")
                        => failures' = [failures EXCEPT ![key[p]] = 0]
            /\ (\A p \in Procs : ~Leaves(p, "e_except") /\ ~Leaves(p, "e_success"))
                  => failures' = failures
       /\ failures' # failures =>
            \A k \in Keys :
                failures[k] >= max_failures /\ failures'[k] < max_failures
                    => MarkSuccessCalled(k) \/ ResetFailures
       /\ \A p \in Procs :
            pc'[p] # pc[p] =>
                /\ Moves(p, "idle", "g_done") /\ error'[p] = "none"
                      => failures[result'[p]] < max_failures
                /\ pc'[p] \in {"u_acquire", "e_await"}
                      => failures[key'[p]] < max_failures
                /\ AllUnhealthy =>
                      /\ Moves(p, "idle", "g_done") => error'[p] = "NoKeys"
                      /\ pc[p] = "idle" /\ pc'[p] \in {"u_acquire", "u_done"}
                            => pc'[p] = "u_done" /\ error'[p] = "NoKeys"
                      /\ pc[p] = "e_select"
                            => /\ pc'[p] = "e_except"
                               /\ call_count'[p] = call_count[p]
                               /\ key'[p] = key[p]
                      /\ pc[p] = "e_except" /\ key[p] = 0
                            => pc'[p] = "e_done" /\ error'[p] # "none"
                /\ Moves(p, "idle", "e_done") => error'[p] # "none"]_vars

\* C30 happens: both keys were made unhealthy, the day changed, and a get_key
\* on the new day ran the daily reset and raised, reporting two failed keys
\* and none exhausted
C30_Witness ==
    /\ nkeys = 2
    /\ today = 1
    /\ last_reset = 1
    /\ AllUnhealthy
    /\ pc[Client] = "g_done"
    /\ error[Client] = "NoKeys"
    /\ msg[Client] = [exhausted |-> 0, failed |-> 2, total |-> 2, limit |-> daily_limit]

\* the positions of the separators of a key string, and its n-th separator
ColonsOf(s) == {i \in DOMAIN s : s[i] = ":"}
NthColon(s, n) ==
    CHOOSE c \in ColonsOf(s) : Cardinality({b \in ColonsOf(s) : b < c}) = n - 1

\* the first and the second segment of a key string, and what follows its
\* second separator: the remaining segments with their separators
FirstSegment(s) ==
    IF ColonsOf(s) = {} THEN s ELSE SubSeq(s, 1, NthColon(s, 1) - 1)
SecondSegment(s) ==
    IF Cardinality(ColonsOf(s)) = 1 THEN SubSeq(s, NthColon(s, 1) + 1, Len(s))
    ELSE SubSeq(s, NthColon(s, 1) + 1, NthColon(s, 2) - 1)
Remaining(s) == SubSeq(s, NthColon(s, 2) + 1, Len(s))

\* a str from its first to its last character that is not whitespace
Trimmed(s) ==
    LET ink == {i \in DOMAIN s : s[i] # " "} IN
        IF ink = {} THEN <<>>
        ELSE SubSeq(s, CHOOSE a \in ink : \A i \in ink : a <= i,
                       CHOOSE b \in ink : \A i \in ink : b >= i)

\* the str "k:alias:proj-a:with:colons" and its project id
ColonsExample ==
    <<"k", ":", "a", "l", "i", "a", "s", ":", "p", "r", "o", "j", "-", "a", ":",
      "w", "i", "t", "h", ":", "c", "o", "l", "o", "n", "s">>
ColonsProject == SubSeq(ColonsExample, 9, Len(ColonsExample))

\* key and alias of the parsed string, and the project id of a string of one
\* or two segments
ParsedKeyAlias ==
    LET s == parsed.key_string
        n == Cardinality(ColonsOf(s)) + 1
        info == parsed.info
    IN  /\ n = 1 => /\ info.key = Trimmed(s)
                     /\ info.alias = <<"k", "e", "y", "-", ToString(parsed.default_index)>>
                     /\ info.project_id = parsed.default_project_id
        /\ n >= 2 => /\ info.key = Trimmed(FirstSegment(s))
                      /\ info.alias = Trimmed(SecondSegment(s))
        /\ n = 2 => info.project_id = parsed.default_project_id

\* parse("k:alias:proj-a:with:colons")
ParsedExample ==
    Parse(ColonsExample, 0, None) =
        [key |-> <<"k">>, alias |-> <<"a", "l", "i", "a", "s">>,
         project_id |-> ColonsProject]

\* C24 as claimed: parse on a string of colon-separated segments: with 1
\* segment the key is the trimmed string, the alias key-<default_index> and
\* the project id the default; with 2 segments key and alias are the trimmed
\* segments and the project id is the default; with 3 or more segments key
\* and alias are the first two trimmed segments and the project id is the
\* remaining segments rejoined with ':', or the default when that rejoined
\* value is empty after trimming.
C24_ProjectIsRemainder ==
    IF parsed = NotParsed THEN ParsedExample
    ELSE /\ ParsedKeyAlias
         /\ Cardinality(ColonsOf(parsed.key_string)) >= 2 =>
               parsed.info.project_id =
                  IF Trimmed(Remaining(parsed.key_string)) = <<>>
                  THEN parsed.default_project_id
                  ELSE Remaining(parsed.key_string)

\* C24 amended: ... with 3 or more segments the project id is the remaining
\* segments rejoined with ':' and then trimmed as a whole (whitespace inside
\* it is kept), or the default when that trimmed value is empty.
C24_ProjectIsTrimmedRemainder ==
    IF parsed = NotParsed THEN ParsedExample
    ELSE /\ ParsedKeyAlias
         /\ Cardinality(ColonsOf(parsed.key_string)) >= 2 =>
               parsed.info.project_id =
                  IF Trimmed(Remaining(parsed.key_string)) = <<>>
                  THEN parsed.default_project_id
                  ELSE Trimmed(Remaining(parsed.key_string))

\* C24 happens: a string of four segments was parsed, with whitespace before
\* its project id, which contains a separator
C24_Witness ==
    /\ parsed.key_string = <<"a", ":", "a", ":", " ", "a", ":", "a">>
    /\ parsed.info = [key |-> <<"a">>, alias |-> <<"a">>,
                      project_id |-> <<"a", ":", "a">>]

\* the sum, over the healthy keys, of max(0, daily_limit - usage) in the state
\* a step leaves
RECURSIVE HealthyRemainingAfter(_)
HealthyRemainingAfter(n) ==
    IF n = 0 THEN 0
    ELSE HealthyRemainingAfter(n - 1)
            + (IF failures'[n] >= max_failures THEN 0
               ELSE IF usage'[n] >= daily_limit THEN 0
               ELSE daily_limit - usage'[n])

\* thread p takes a step of its get_total_remaining call
TotalMoves(p) ==
    \/ Moves(p, "idle", "r_key")
    \/ pc[p] = "r_key" /\ pos'[p] # pos[p]

\* C22 as claimed: in every state get_total_remaining() is the sum over the
\* healthy keys only of max(0, daily_limit - usage(key)), an unhealthy key
\* adding 0 whatever its remaining quota, and the call changes no state.
C22_TotalOfState ==
    [][\A p \in Procs :
         /\ Moves(p, "r_key", "r_done") => ret'[p] = HealthyRemainingAfter(nkeys)
         /\ TotalMoves(p) => poolvars' = poolvars]_vars

\* C22 amended: get_total_remaining() visits the keys in key order and adds,
\* for each, 0 if the key is unhealthy at that moment and otherwise
\* max(0, daily_limit - usage(key)) as read at that moment; the result is the
\* sum of these, which is the sum over the healthy keys of the state the call
\* returns in when no count it has read was changed meanwhile. The call
\* changes no failure count, no in-flight count and not the cursor, and no
\* usage state within one day: on a later day than the last reset the read of
\* the first healthy key clears every usage count and sets the last-reset
\* date.
C22_TotalOfReads ==
    [][\A p \in Procs :
         TotalMoves(p) =>
            /\ <<active, failures, rr_index>>' = <<active, failures, rr_index>>
            /\ today <= last_reset => usage' = usage /\ last_reset' = last_reset
            /\ usage' \in {usage, UsageToday}
            /\ last_reset' \in {last_reset, today}
            /\ pc[p] = "r_key" =>
                  LET k == pos[p] + 1 IN
                     /\ pos'[p] = k
                     /\ failures[k] >= max_failures
                           => /\ summands'[p] = Append(summands[p], 0)
                              /\ usage' = usage /\ last_reset' = last_reset
                     /\ failures[k] < max_failures
                           => /\ summands'[p] = Append(summands[p],
                                    IF usage'[k] >= daily_limit THEN 0
                                    ELSE daily_limit - usage'[k])
                              /\ usage' = UsageToday
                     /\ pc'[p] = "r_done" <=> k = nkeys
            /\ pc'[p] = "r_done" =>
                  /\ ret'[p] = Sum(summands'[p])
                  /\ (\A k \in Keys :
                         summands'[p][k] = HealthyRemainingAfter(k)
                                              - HealthyRemainingAfter(k - 1))
                        => ret'[p] = HealthyRemainingAfter(nkeys)]_vars

\* C22 happens: on a two-key pool the first key is unhealthy with quota left,
\* the second has used part of its quota, and the call returned what the
\* second key has left
C22_Witness ==
    \E p \in Procs :
        /\ nkeys = 2
        /\ daily_limit = 2
        /\ pc[p] = "r_done"
        /\ failures[1] >= max_failures
        /\ usage[1] = 0
        /\ usage[2] = 1
        /\ summands[p] = <<0, 1>>
        /\ ret[p] = 1

\* C23 as claimed: with no concurrent mutation get_status() returns one entry
\* per key, indexed by the key's alias, whose fields are the trackers' values
\* for that key (used, remaining = max(0, daily_limit - used), available =
\* used < daily_limit, active_concurrent, failure_count, healthy =
\* failure_count < max_failures), and get_status changes no state.
C23_StatusPerKey ==
    [][\A p \in Procs :
         /\ Moves(p, "s_key", "s_done") =>
              /\ Cardinality(DOMAIN ret'[p]) = nkeys
              /\ \A k \in Keys :
                    /\ alias[k] \in DOMAIN ret'[p]
                    /\ ret'[p][alias[k]] =
                          [key_preview |-> k,
                           used |-> usage'[k],
                           remaining |-> IF usage'[k] >= daily_limit THEN 0
                                         ELSE daily_limit - usage'[k],
                           available |-> usage'[k] < daily_limit,
                           active_concurrent |-> active'[k],
                           failure_count |-> failures'[k],
                           healthy |-> failures'[k] < max_failures]
         /\ pc[p] = "s_key" /\ pos'[p] # pos[p] => poolvars' = poolvars]_vars

\* thread p is at a `with self._lock:` that it has not entered yet
AtEnter(p) ==
    /\ pc[p] = "l_run"
    /\ frame[p].todo # <<>>
    /\ Head(frame[p].todo).op = "enter"

\* the lock thread p is about to enter
Wanted(p) == Head(frame[p].todo).lock

\* thread p, inside a pool operation, can take its next step now
CanStep(p) ==
    ENABLED (NextCall(p) \/ NextPhase(p) \/ LockEnter(p) \/ LockExit(p)
                \/ UseBlock(p) \/ PoolReturn(p))

\* C29: no pool or tracker operation takes a lock while it holds one (the
\* three tracker locks and the cursor lock are never nested, none is taken
\* again by its holder), every lock taken is released before the operation
\* returns or raises, and therefore threads calling get_key, mark_used,
\* mark_failed, mark_success, acquire, release, use_key, get_status,
\* get_total_remaining and reset_failures in any interleaving never
\* deadlock: a thread inside an operation can step, or waits for a lock
\* whose holder is another thread that can step.
C29_LocksNeverNested ==
    /\ [](\A p \in Procs :
            /\ AtEnter(p) => Held(p) = {}
            /\ Cardinality(Held(p)) <= 1
            /\ pc[p] = "idle" => Held(p) = {}
            /\ pc[p] = "l_run" =>
                  \/ CanStep(p)
                  \/ /\ AtEnter(p)
                     /\ lock[Wanted(p)] \in Procs \ {p}
                     /\ CanStep(lock[Wanted(p)]))
    /\ [][\A p \in Procs :
            /\ (\A l \in Locks : lock[l] # p /\ lock'[l] = p => Held(p) = {})
            /\ Moves(p, "l_run", "idle") => Held(p) = {}]_vars

\* C29 happens: under round robin one thread is inside _get_round_robin of a
\* get_key call, holding the cursor lock, and the other, inside use_key,
\* waits for that lock; a tracker lock is free meanwhile
C29_Witness ==
    /\ strategy = "round_robin"
    /\ frame[1].op = "get_key"
    /\ lock["pool"] = 1
    /\ frame[2].op = "use_key"
    /\ AtEnter(2)
    /\ Wanted(2) = "pool"
    /\ lock["usage"] = 0

====
